---------------------------- MODULE Spec2Model ----------------------------
\* A model of update-gallery.py, the icon gallery generator: the markup
\* extractors, the name resolvers, the catalog builder of main() and the
\* redundancy detector.
\*
\* Text is modelled character by character: a Python str is a sequence of
\* one-character strings, so that the regular expressions of the source are
\* matched the way the re module matches them (leftmost match, greedy and lazy
\* quantifiers, optional groups) and so that sorting, whitespace normalisation
\* and similarity are computed and not assumed.
\*
\* A value an operator uses more than once is bound as the parameter of a
\* local operator (LET F(x) == ... IN F(e)), so that it is written, and
\* evaluated, once.
EXTENDS Integers, Sequences, FiniteSets, TLC

VARIABLES
    pc,             \* position of main() (or of the function under study)
    pkg,            \* file system: per repository, its copy of the shared package
    custom,         \* file system: the .tsx files of the custom svg directory
    repo_i,         \* load_package_icons: index into REPOS of the copy being read
    entry_i,        \* load_package_icons: index of the next entry of that copy
    file_i,         \* load_custom_svg_icons: index of the next .tsx file
    icons,          \* the catalog (a dict: a sequence of entries with unique names)
    custom_icons,   \* the dict returned by load_custom_svg_icons
    exact_groups,   \* find_redundant_groups: first result
    near_groups,    \* find_redundant_groups: second result
    chunks,         \* extractor study: the declarations the input text is made of
    input_text,     \* extractor study: the input text
    element_tags,   \* extractor study: the elements list (lines 78-99)
    svg_result,     \* extractor study: what extract_svg_from_js returned
    apps,           \* file system: per repository, its src directory
    app_i,          \* main(): index of the application being scanned (steps 3 and 4)
    primeicons_by_app,  \* main(): the PrimeIcons classes found per application
    file_name,      \* name study: the name of the file or entry
    resolved        \* name study: the names the resolvers returned

vars == << pc, pkg, custom, repo_i, entry_i, file_i, icons, custom_icons,
           exact_groups, near_groups, chunks, input_text, element_tags, svg_result,
           apps, app_i, primeicons_by_app, file_name, resolved >>

\* ------------------------------------------------------------------------
\* Characters and strings
\* ------------------------------------------------------------------------

\* Python's None, told apart from every str (whose elements are one character).
None == << "None" >>

\* The characters of the model in code point order (ASCII 9, 10, 12, 13, 32..126 without the backquote).
AsciiOrder ==
    << "\t", "\n", "\f", "\r", " ", "!", "\"", "#", "$", "%", "&", "'", "(", ")", "*", "+",
       ",", "-", ".", "/", "0", "1", "2", "3", "4", "5", "6", "7", "8", "9", ":", ";",
       "<", "=", ">", "?", "@", "A", "B", "C", "D", "E", "F", "G", "H", "I", "J", "K",
       "L", "M", "N", "O", "P", "Q", "R", "S", "T", "U", "V", "W", "X", "Y", "Z", "[",
       "\\", "]", "^", "_", "a", "b", "c", "d", "e", "f", "g", "h", "i", "j", "k",
       "l", "m", "n", "o", "p", "q", "r", "s", "t", "u", "v", "w", "x", "y", "z", "{",
       "|", "}", "~" >>

Char == { AsciiOrder[i] : i \in 1..Len(AsciiOrder) }

\* ord(c)
Ord == [ c \in Char |-> CHOOSE i \in 1..Len(AsciiOrder) : AsciiOrder[i] = c ]

\* The character classes of the re module.
Whitespace == { "\t", "\n", "\f", "\r", " " }                       \* \s
Digit == { "0", "1", "2", "3", "4", "5", "6", "7", "8", "9" }       \* \d
WordChar ==                                                          \* \w
    { c \in Char : \/ c \in Digit
                   \/ c = "_"
                   \/ Ord[c] \in Ord["A"]..Ord["Z"]
                   \/ Ord[c] \in Ord["a"]..Ord["z"] }
Quote == { "\"", "'" }                                               \* ["\']

Max(a, b) == IF a >= b THEN a ELSE b
Min(a, b) == IF a <= b THEN a ELSE b

\* s[i:j] with 1-based i and exclusive j, as a Python slice clamps.
Slice(s, i, j) == IF i >= j THEN << >> ELSE SubSeq(s, i, Min(j, Len(s) + 1) - 1)

\* The literal lit stands in s at position i.
IsAt(s, i, lit) ==
    /\ i >= 1
    /\ i + Len(lit) - 1 <= Len(s)
    /\ \A k \in 1..Len(lit) : s[i + k - 1] = lit[k]

\* The least and the greatest element of a non-empty set of integers.
MinOf(S) == CHOOSE p \in S : \A q \in S : p <= q
MaxOf(S) == CHOOSE p \in S : \A q \in S : p >= q

\* The same with a value for the empty set.
MinOr(S, none) == IF S = {} THEN none ELSE MinOf(S)
MaxOr(S, none) == IF S = {} THEN none ELSE MaxOf(S)

\* str.find from position i: the first position >= i where lit stands, 0 if none.
Find(s, lit, i) == MinOr({ p \in i..(Len(s) - Len(lit) + 1) : IsAt(s, p, lit) }, 0)

\* lit in s
Contains(s, lit) == Find(s, lit, 1) # 0

\* The end of the longest run of characters of class cls from position i
\* (a greedy cls* : the position of the first character not in cls).
Span(s, i, cls) == MinOr({ p \in i..Len(s) : s[p] \notin cls }, Max(i, Len(s) + 1))

\* The same for a negated class [^...]* .
SpanNot(s, i, cls) == MinOr({ p \in i..Len(s) : s[p] \in cls }, Max(i, Len(s) + 1))

\* "".join(parts)
RECURSIVE Join(_)
Join(parts) == IF parts = << >> THEN << >> ELSE Head(parts) \o Join(Tail(parts))

\* sep.join(parts)
RECURSIVE JoinWith(_, _)
JoinWith(sep, parts) ==
    IF parts = << >> THEN << >>
    ELSE IF Len(parts) = 1 THEN parts[1]
    ELSE parts[1] \o sep \o JoinWith(sep, Tail(parts))

\* The last position <= j of a character not in cls, 0 if there is none.
LastNotIn(s, j, cls) == MaxOr({ p \in 1..j : s[p] \notin cls }, 0)

\* str.strip(chars): leading and trailing characters of the set removed.
Strip(s, cls) ==
    LET Between(a, b) == IF a > b THEN << >> ELSE SubSeq(s, a, b)
    IN  Between(Span(s, 1, cls), LastNotIn(s, Len(s), cls))

\* a < b for str: the order of sorted() and list.sort().
RECURSIVE StrLess(_, _)
StrLess(a, b) ==
    IF b = << >> THEN FALSE
    ELSE IF a = << >> THEN TRUE
    ELSE IF a[1] = b[1] THEN StrLess(Tail(a), Tail(b))
    ELSE Ord[a[1]] < Ord[b[1]]

\* sorted(seq) for a sequence of str: a stable insertion sort, which gives the
\* same list as Python's sort since equal strings cannot be told apart.
RECURSIVE InsertSorted(_, _)
InsertSorted(x, sorted) ==
    IF sorted = << >> THEN << x >>
    ELSE IF StrLess(x, Head(sorted)) THEN << x >> \o sorted
    ELSE << Head(sorted) >> \o InsertSorted(x, Tail(sorted))

RECURSIVE SortedStr(_)
SortedStr(seq) ==
    IF seq = << >> THEN << >>
    ELSE InsertSorted(seq[Len(seq)], SortedStr(SubSeq(seq, 1, Len(seq) - 1)))

\* ------------------------------------------------------------------------
\* Pieces of the regular expressions
\* ------------------------------------------------------------------------

NoMatch == [ start |-> 0 ]

\* Of a set of matches, the one that starts first: re.search tries the start
\* positions from left to right.
Leftmost(matches) ==
    IF matches = {} THEN NoMatch
    ELSE CHOOSE m \in matches : \A n \in matches : m.start <= n.start

\* key\s*["\'](value)["\'] at position i, where value is [^"\']+ or, with
\* digits, \d+ . The greedy \s* and value need no backtracking: the character
\* that stops each run is the only one that could match what follows. q is
\* the place of the opening quote and e of the closing one.
KeyQuotedAt(s, i, key, digits) ==
    LET Closed(q, e) ==
            IF /\ q <= Len(s) /\ s[q] \in Quote
               /\ e > q + 1
               /\ e <= Len(s) /\ s[e] \in Quote
            THEN [ start |-> i, end |-> e + 1, value |-> SubSeq(s, q + 1, e - 1) ]
            ELSE NoMatch
        Opened(q) ==
            Closed(q, IF digits THEN Span(s, q + 1, Digit) ELSE SpanNot(s, q + 1, Quote))
    IN  IF ~IsAt(s, i, key) THEN NoMatch
        ELSE Opened(Span(s, i + Len(key), Whitespace))

\* re.search of key\s*["\'](value)["\'] : the leftmost match from position i.
SearchKeyQuoted(s, i, key, digits) ==
    Leftmost({ KeyQuotedAt(s, p, key, digits) : p \in i..Len(s) } \ { NoMatch })

\* ------------------------------------------------------------------------
\* SVG extraction from compiled React components
\* ------------------------------------------------------------------------

\* Neighbourhood searched for "fillRule" before a path match.
ContextWindow == 200

\* The default fill colour.
DefaultFill == <<"#","3","3","3">>

\* The values the path loop treats as no fill at all.
UnsetFills == { <<"v","o","i","d"," ","0">>, <<"f","i","l","l">>, <<"u","n","d","e","f","i","n","e","d">> }

\* The optional group (?:fill:\s*([^,}]+?)\s*[,}])? of the path pattern, tried
\* at position p. All of fill:'s value up to the first , or } is [^,}], so the
\* lazy group is that text without the whitespace around it (\s* is greedy
\* before it and the group gives way to the \s* after it); of a value that is
\* only whitespace the group keeps the last character.
FillGroupAt(s, p) ==
    LET Group(t, a) ==
            IF t > Len(s) \/ t = p + 5 THEN NoMatch
            ELSE [ start |-> p, end |-> t + 1,
                   value |-> IF a >= t THEN << s[t - 1] >>
                             ELSE SubSeq(s, a, LastNotIn(s, t - 1, Whitespace)) ]
    IN  IF ~IsAt(s, p, <<"f","i","l","l",":">>) THEN NoMatch
        ELSE Group(SpanNot(s, p + 5, { ",", "}" }), Span(s, p + 5, Whitespace))

\* d:\s*["\']([^"\']+)["\'][^}]*?(?:fill:\s*([^,}]+?)\s*[,}])? at position i.
\* The lazy [^}]*? is first tried empty, and the optional group after it may
\* match nothing, so the match always ends there: the group is only ever tried
\* directly after the closing quote of d.
PathMatchAt(s, i) ==
    LET WithFill(m, f) ==
            [ start |-> i,
              end   |-> IF f # NoMatch THEN f.end ELSE m.end,
              d     |-> m.value,
              fill  |-> IF f # NoMatch THEN f.value ELSE None ]
        Data(m) == IF m = NoMatch THEN NoMatch ELSE WithFill(m, FillGroupAt(s, m.end))
    IN  Data(KeyQuotedAt(s, i, <<"d",":">>, FALSE))

\* re.finditer of the path pattern: leftmost matches, none overlapping.
RECURSIVE PathFindIter(_, _)
PathFindIter(s, pos) ==
    LET From(m) == IF m = NoMatch THEN << >> ELSE << m >> \o PathFindIter(s, m.end)
    IN  From(Leftmost({ PathMatchAt(s, p) : p \in pos..Len(s) } \ { NoMatch }))

\* Lines 84-85 without the test for the unset fills.
NormalizePathFillVarOnly(fill) ==
    IF Contains(fill, <<"v","a","r","(">>) THEN DefaultFill ELSE fill

\* Lines 84-85: a fill with a var() reference or an unset fill becomes the default.
NormalizePathFill(fill) ==
    IF Contains(fill, <<"v","a","r","(">>) \/ fill \in UnsetFills THEN DefaultFill ELSE fill

\* Lines 83-85: the fill of a path match.
PathFill(m) ==
    NormalizePathFill(IF m.fill # None
                      THEN Strip(Strip(m.fill, Whitespace), Quote)
                      ELSE DefaultFill)

\* Lines 86-88: the tag of a path match.
PathTag(s, m) ==
    LET context   == Slice(s, Max(1, m.start - ContextWindow), m.end)
        fill_rule == IF Contains(context, <<"f","i","l","l","R","u","l","e">>)
                     THEN <<" ","f","i","l","l","-","r","u","l","e","=","\"","e","v","e","n","o","d","d","\""," ","c","l","i","p","-","r","u","l","e","=","\"","e","v","e","n","o","d","d","\"">>
                     ELSE << >>
    IN  <<"<","p","a","t","h"," ","d","=","\"">> \o m.d \o <<"\""," ","f","i","l","l","=","\"">> \o PathFill(m) \o <<"\"">> \o fill_rule \o <<"/",">">>

\* Of a set of matches, the one that starts last.
Rightmost(matches) ==
    IF matches = {} THEN NoMatch
    ELSE CHOOSE m \in matches : \A n \in matches : m.start >= n.start

\* [^}]*key\s*["\'](v)["\'] for each key in turn, from position p: the greedy
\* [^}]* gives back one character at a time, so of the places where the key
\* and the rest of the chain match, the last one is taken.
RECURSIVE AttrChain(_, _, _)
AttrChain(s, p, keys) ==
    LET Linked(c, m, rest) ==
            IF rest = NoMatch THEN NoMatch
            ELSE [ start |-> c, values |-> << m.value >> \o rest.values, end |-> rest.end ]
        KeyAt(c, m) ==
            IF m = NoMatch THEN NoMatch ELSE Linked(c, m, AttrChain(s, m.end, Tail(keys)))
    IN  IF keys = << >> THEN [ start |-> p, values |-> << >>, end |-> p ]
        ELSE Rightmost({ KeyAt(c, KeyQuotedAt(s, c, keys[1], FALSE)) :
                           c \in p..SpanNot(s, p, { "}" }) } \ { NoMatch })

\* The circle pattern at position i. After r's value the greedy [^}]* runs to
\* the next } (or the end of the text) and the optional fill group is tried there.
CircleMatchAt(s, i) ==
    LET Filled(chain, e, f) ==
            [ start |-> i,
              end   |-> IF f # NoMatch THEN f.end ELSE e,
              cx    |-> chain.values[1],
              cy    |-> chain.values[2],
              r     |-> chain.values[3],
              fill  |-> IF f # NoMatch THEN f.value ELSE None ]
        Closing(chain, e) == Filled(chain, e, KeyQuotedAt(s, e, <<"f","i","l","l",":">>, FALSE))
        Attrs(chain) ==
            IF chain = NoMatch THEN NoMatch
            ELSE Closing(chain, SpanNot(s, chain.end, { "}" }))
        Opened(q) ==
            IF ~(q <= Len(s) /\ s[q] = "{") THEN NoMatch
            ELSE Attrs(AttrChain(s, q + 1, << <<"c","x",":">>, <<"c","y",":">>, <<"r",":">> >>))
    IN  IF ~IsAt(s, i, <<"j","s","x","(","\"","c","i","r","c","l","e","\"",",">>) THEN NoMatch
        ELSE Opened(Span(s, i + Len(<<"j","s","x","(","\"","c","i","r","c","l","e","\"",",">>), Whitespace))

\* re.finditer of the circle pattern.
RECURSIVE CircleFindIter(_, _)
CircleFindIter(s, pos) ==
    LET From(m) == IF m = NoMatch THEN << >> ELSE << m >> \o CircleFindIter(s, m.end)
    IN  From(Leftmost({ CircleMatchAt(s, p) : p \in pos..Len(s) } \ { NoMatch }))

\* Lines 97-98: a fill with a var() reference becomes the default.
NormalizeCircleFill(fill) ==
    IF Contains(fill, <<"v","a","r","(">>) THEN DefaultFill ELSE fill

\* Lines 96-98: the fill of a circle match.
CircleFill(m) ==
    NormalizeCircleFill(IF m.fill # None THEN m.fill ELSE DefaultFill)

\* Line 99: the tag of a circle match.
CircleTag(m) ==
    <<"<","c","i","r","c","l","e"," ","c","x","=","\"">> \o m.cx \o <<"\""," ","c","y","=","\"">> \o m.cy \o <<"\""," ","r","=","\"">> \o m.r
        \o <<"\""," ","f","i","l","l","=","\"">> \o CircleFill(m) \o <<"\"","/",">">>

\* Lines 78-99: the elements list, paths first and circles after them.
Elements(s) ==
    LET PathTags(paths) == [ k \in 1..Len(paths) |-> PathTag(s, paths[k]) ]
        CircleTags(circles) == [ k \in 1..Len(circles) |-> CircleTag(circles[k]) ]
    IN  PathTags(PathFindIter(s, 1)) \o CircleTags(CircleFindIter(s, 1))

\* Lines 104-107: the fragment around the elements.
SvgFragment(width, height, viewbox, elements) ==
    <<"<","s","v","g"," ","w","i","d","t","h","=","\"">> \o width \o <<"\""," ","h","e","i","g","h","t","=","\"">> \o height
        \o <<"\""," ","v","i","e","w","B","o","x","=","\"">> \o viewbox
        \o <<"\""," ","f","i","l","l","=","\"","n","o","n","e","\""," ","x","m","l","n","s","=","\"","h","t","t","p",":","/","/","w","w","w",".","w","3",".","o","r","g","/","2","0","0","0","/","s","v","g","\"",">">>
        \o Join(elements) \o <<"<","/","s","v","g",">">>

extract_svg_from_js(content) ==
    LET Fragment(width_m, height_m, viewbox_m, elements) ==
            IF viewbox_m = NoMatch THEN None
            ELSE IF elements = << >> THEN None
            ELSE SvgFragment(IF width_m # NoMatch THEN width_m.value ELSE <<"2","4">>,
                             IF height_m # NoMatch THEN height_m.value ELSE <<"2","4">>,
                             viewbox_m.value, elements)
    IN  Fragment(SearchKeyQuoted(content, 1, <<"w","i","d","t","h",":">>, TRUE),
                 SearchKeyQuoted(content, 1, <<"h","e","i","g","h","t",":">>, TRUE),
                 SearchKeyQuoted(content, 1, <<"v","i","e","w","B","o","x",":">>, FALSE),
                 Elements(content))

\* ------------------------------------------------------------------------
\* SVG extraction from source .tsx components
\* ------------------------------------------------------------------------

\* (<svg[^>]*>)(.*?)(</svg>) with re.DOTALL at position i: the opening tag ends
\* at the first > (at gt) and the lazy .*? stops at the first </svg> after it.
SvgMatchAt(s, i) ==
    LET Groups(gt, close) ==
            IF gt > Len(s) \/ close = 0 THEN NoMatch
            ELSE [ start |-> i,
                   open  |-> SubSeq(s, i, gt),
                   inner |-> SubSeq(s, gt + 1, close - 1),
                   close |-> <<"<","/","s","v","g",">">> ]
        Tag(gt) == Groups(gt, Find(s, <<"<","/","s","v","g",">">>, gt + 1))
    IN  IF ~IsAt(s, i, <<"<","s","v","g">>) THEN NoMatch ELSE Tag(SpanNot(s, i + 4, { ">" }))

\* Line 113: re.search of the pattern.
SearchSvg(s) == Leftmost({ SvgMatchAt(s, p) : p \in 1..Len(s) } \ { NoMatch })

\* \s*\{\.\.\.props\} at position p.
SpreadPropsAt(s, p) ==
    LET Spread(q) ==
            IF IsAt(s, q, <<"{",".",".",".","p","r","o","p","s","}">>) THEN [ start |-> p, end |-> q + 10 ] ELSE NoMatch
    IN  Spread(Span(s, p, Whitespace))

\* \w+=\{[^}]+\} at position p.
JsxExprAt(s, p) ==
    LET Expr(e, t) ==
            IF e > p /\ IsAt(s, e, <<"=","{">>) /\ t > e + 2 /\ t <= Len(s)
            THEN [ start |-> p, end |-> t + 1 ] ELSE NoMatch
        Word(e) == Expr(e, SpanNot(s, e + 2, { "}" }))
    IN  Word(Span(s, p, WordChar))

\* fill="var\([^)]+\)" at position p.
VarFillAt(s, p) ==
    LET Value(t) ==
            IF IsAt(s, p, <<"f","i","l","l","=","\"","v","a","r","(">>) /\ t > p + 10 /\ IsAt(s, t, <<")","\"">>)
            THEN [ start |-> p, end |-> t + 2 ] ELSE NoMatch
    IN  Value(SpanNot(s, p + 10, { ")" }))

\* One of the three patterns above, by name.
PatternAt(kind, s, p) ==
    CASE kind = "spread"  -> SpreadPropsAt(s, p)
      [] kind = "jsxexpr" -> JsxExprAt(s, p)
      [] kind = "varfill" -> VarFillAt(s, p)

\* re.sub(pattern, repl, s) from position pos.
RECURSIVE ReSub(_, _, _, _)
ReSub(kind, repl, s, pos) ==
    LET Sub(m) ==
            IF m = NoMatch THEN Slice(s, pos, Len(s) + 1)
            ELSE Slice(s, pos, m.start) \o repl \o ReSub(kind, repl, s, m.end)
    IN  Sub(Leftmost({ PatternAt(kind, s, p) : p \in pos..Len(s) } \ { NoMatch }))

\* str.replace(old, new, count) from position pos; count < 0 replaces all.
RECURSIVE Replace(_, _, _, _, _)
Replace(s, old, new, count, pos) ==
    LET At(p) ==
            IF p = 0 \/ count = 0 THEN Slice(s, pos, Len(s) + 1)
            ELSE Slice(s, pos, p) \o new \o Replace(s, old, new, count - 1, p + Len(old))
    IN  At(Find(s, old, pos))

\* m.group(1) if m else None
ValueOf(m) == IF m = NoMatch THEN None ELSE m.value

\* key(\d+)" at position p, the key ending in =" .
DigitsAttrAt(s, p, key) ==
    LET Digits(e) ==
            IF IsAt(s, p, key) /\ e > p + Len(key) /\ e <= Len(s) /\ s[e] = "\""
            THEN [ start |-> p, value |-> SubSeq(s, p + Len(key), e - 1) ] ELSE NoMatch
    IN  Digits(Span(s, p + Len(key), Digit))

\* Lines 135-136: the digits of the width or height attribute, None if none.
SearchDigitsAttr(s, key) ==
    ValueOf(Leftmost({ DigitsAttrAt(s, p, key) : p \in 1..Len(s) } \ { NoMatch }))

\* Lines 122-125: the opening tag cleaned.
CleanOpen(svg_open) ==
    ReSub("jsxexpr", << >>,
          Replace(ReSub("spread", << >>, svg_open, 1), <<"c","l","a","s","s","N","a","m","e","=">>, <<"c","l","a","s","s","=">>, -1, 1),
          1)

\* Lines 128-131: the inner content cleaned.
CleanInner(svg_inner) ==
    Replace(Replace(ReSub("jsxexpr", << >>,
                          Replace(svg_inner, <<"c","l","a","s","s","N","a","m","e","=">>, <<"c","l","a","s","s","=">>, -1, 1), 1),
                    <<"<",">">>, << >>, -1, 1),
            <<"<","/",">">>, << >>, -1, 1)

\* Lines 134-138: a viewBox is added to an opening tag that has a width and a
\* height and no viewBox.
EnsureViewBox(svg_open, width, height) ==
    IF ~Contains(svg_open, <<"v","i","e","w","B","o","x">>) /\ width # None /\ height # None
    THEN Replace(svg_open, <<">">>,
                 <<" ","v","i","e","w","B","o","x","=","\"","0"," ","0"," ">> \o width \o <<" ">> \o height \o <<"\"",">">>, 1, 1)
    ELSE svg_open

\* Lines 141-144: variable fills and empty fills become the default.
DefaultFills(full_svg) ==
    Replace(ReSub("varfill", <<"f","i","l","l","=","\"","#","3","3","3","\"">>, full_svg, 1),
            <<"f","i","l","l","=","\"","\"">>, <<"f","i","l","l","=","\"","#","3","3","3","\"">>, -1, 1)

extract_svg_from_tsx(tsx_content) ==
    LET Full(svg_open, svg_inner, svg_close) ==
            DefaultFills(EnsureViewBox(svg_open,
                                       SearchDigitsAttr(svg_open, <<"w","i","d","t","h","=","\"">>),
                                       SearchDigitsAttr(svg_open, <<"h","e","i","g","h","t","=","\"">>))
                         \o svg_inner \o svg_close)
        Cleaned(svg_match) ==
            IF svg_match = NoMatch THEN None
            ELSE Full(CleanOpen(svg_match.open), CleanInner(svg_match.inner),
                      svg_match.close)
    IN  Cleaned(SearchSvg(tsx_content))

\* ------------------------------------------------------------------------
\* Name resolution
\* ------------------------------------------------------------------------

\* The end of a run of one or more whitespace characters from p, 0 if none (\s+).
Spaces1(s, p) ==
    LET Run(e) == IF e > p THEN e ELSE 0
    IN  Run(Span(s, p, Whitespace))

\* The word (\w+) at position p, << >> if none.
WordAt(s, p) == Slice(s, p, Span(s, p, WordChar))

\* A match from position p whose group is the name w; no match without a name.
Named(p, w) == IF w = << >> THEN NoMatch ELSE [ start |-> p, value |-> w ]

\* export\s*\{\s*(\w+) at position p: b is the place of the brace.
ExportBraceAt(js, p) ==
    LET Brace(b) ==
            IF b <= Len(js) /\ js[b] = "{"
            THEN Named(p, WordAt(js, Span(js, b + 1, Whitespace))) ELSE NoMatch
    IN  IF ~IsAt(js, p, <<"e","x","p","o","r","t">>) THEN NoMatch ELSE Brace(Span(js, p + 6, Whitespace))

get_exported_name(js_content) ==
    ValueOf(Leftmost({ ExportBraceAt(js_content, p) : p \in 1..Len(js_content) }
                         \ { NoMatch }))

\* Path(filename).stem: the name without its last suffix.
Stem(filename) ==
    LET Cut(last) ==
            IF last > 1 /\ last < Len(filename) THEN SubSeq(filename, 1, last - 1)
            ELSE filename
    IN  Cut(MaxOr({ p \in 1..Len(filename) : filename[p] = "." }, 0))

\* export\s+(?:default\s+)?function\s+(\w+) at position p: a is the place after
\* export and its whitespace, d the place after default and its whitespace,
\* n the place of the name; 0 stands for a part that does not match.
ExportFunctionAt(s, p) ==
    LET Name(n) == IF n = 0 THEN NoMatch ELSE Named(p, WordAt(s, n))
        Function(f) ==
            Name(IF f # 0 /\ IsAt(s, f, <<"f","u","n","c","t","i","o","n">>) THEN Spaces1(s, f + 8) ELSE 0)
        Default(a, d) == Function(IF d # 0 THEN d ELSE a)
        Export(a) ==
            Default(a, IF a # 0 /\ IsAt(s, a, <<"d","e","f","a","u","l","t">>) THEN Spaces1(s, a + 7) ELSE 0)
    IN  IF ~IsAt(s, p, <<"e","x","p","o","r","t">>) THEN NoMatch ELSE Export(Spaces1(s, p + 6))

\* export\s+const\s+(\w+) at position p.
ExportConstAt(s, p) ==
    LET Name(n) == IF n = 0 THEN NoMatch ELSE Named(p, WordAt(s, n))
        Export(a) ==
            Name(IF a # 0 /\ IsAt(s, a, <<"c","o","n","s","t">>) THEN Spaces1(s, a + 5) ELSE 0)
    IN  IF ~IsAt(s, p, <<"e","x","p","o","r","t">>) THEN NoMatch ELSE Export(Spaces1(s, p + 6))

\* Lines 157-164 with the two searches in the other order.
get_exported_name_tsx_const_first(tsx_content, filename) ==
    LET Pick(function_m, const_m) ==
            IF const_m # NoMatch THEN const_m.value
            ELSE IF function_m # NoMatch THEN function_m.value
            ELSE Stem(filename)
    IN  Pick(Leftmost({ ExportFunctionAt(tsx_content, p) : p \in 1..Len(tsx_content) }
                          \ { NoMatch }),
             Leftmost({ ExportConstAt(tsx_content, p) : p \in 1..Len(tsx_content) }
                          \ { NoMatch }))

\* Lines 155-164
get_exported_name_tsx(tsx_content, filename) ==
    LET Pick(function_m, const_m) ==
            IF function_m # NoMatch THEN function_m.value
            ELSE IF const_m # NoMatch THEN const_m.value
            ELSE Stem(filename)
    IN  Pick(Leftmost({ ExportFunctionAt(tsx_content, p) : p \in 1..Len(tsx_content) }
                          \ { NoMatch }),
             Leftmost({ ExportConstAt(tsx_content, p) : p \in 1..Len(tsx_content) }
                          \ { NoMatch }))

\* ------------------------------------------------------------------------
\* Redundancy detection
\* ------------------------------------------------------------------------

\* Path data of at most this many characters is dropped (line 291).
MinPathLen == 5

\* NEAR_DUPLICATE_THRESHOLD = 0.80, in hundredths (line 60).
NEAR_DUPLICATE_THRESHOLD == 80

\* The least fingerprint length ratio compared, 0.4, in tenths (line 367).
LengthRatioMin == 4

\* SequenceMatcher's autojunk heuristic starts at a second sequence of 200
\* characters; the fingerprints of this model stay below it.

\* d="([^"]+)" at position p.
DAttrAt(s, p) ==
    LET Value(e) ==
            IF IsAt(s, p, <<"d","=","\"">>) /\ e > p + 3 /\ e <= Len(s)
            THEN [ start |-> p, end |-> e + 1, value |-> SubSeq(s, p + 3, e - 1) ]
            ELSE NoMatch
    IN  Value(SpanNot(s, p + 3, { "\"" }))

\* re.findall(r'd="([^"]+)"', svg_str) from position pos.
RECURSIVE FindAllD(_, _)
FindAllD(s, pos) ==
    LET From(m) == IF m = NoMatch THEN << >> ELSE << m.value >> \o FindAllD(s, m.end)
    IN  From(Leftmost({ DAttrAt(s, p) : p \in pos..Len(s) } \ { NoMatch }))

\* re.match(r'^clip\d', d)
IsClipId(d) == IsAt(d, 1, <<"c","l","i","p">>) /\ Len(d) >= 5 /\ d[5] \in Digit

\* d.split(): the maximal runs of non-whitespace characters, from position pos.
RECURSIVE SplitWs(_, _)
SplitWs(d, pos) ==
    LET Word(a, e) == IF a > Len(d) THEN << >> ELSE << SubSeq(d, a, e - 1) >> \o SplitWs(d, e)
        From(a) == Word(a, SpanNot(d, a, Whitespace))
    IN  From(Span(d, pos, Whitespace))

\* " ".join(d.split())
NormalizeWhitespace(d) == JoinWith(<< " " >>, SplitWs(d, 1))

\* Line 294
NormalizeAll(d_values) == [ k \in 1..Len(d_values) |-> NormalizeWhitespace(d_values[k]) ]

\* Lines 285-299 without the sort of line 297.
normalize_paths_unsorted(svg_str) ==
    NormalizeAll(SelectSeq(SelectSeq(FindAllD(svg_str, 1),
                                     LAMBDA d : ~IsClipId(d)),
                           LAMBDA d : Len(d) > MinPathLen))

\* Lines 285-299. The two filters read the values as they stand in the markup;
\* whitespace is normalised after them.
normalize_paths(svg_str) ==
    SortedStr(NormalizeAll(SelectSeq(SelectSeq(FindAllD(svg_str, 1),
                                               LAMBDA d : ~IsClipId(d)),
                                     LAMBDA d : Len(d) > MinPathLen)))

compute_fingerprint(paths_tuple) == JoinWith(<< "|" >>, paths_tuple)

\* The length of the longest common run of a from i and b from j, within
\* a[i:ahi] and b[j:bhi] (1-based, ahi and bhi exclusive).
RunLen(a, i, ahi, b, j, bhi) ==
    MaxOf({ n \in 0..Min(ahi - i, bhi - j) : \A t \in 0..(n - 1) : a[i + t] = b[j + t] })

\* A block x comes before a block y: it is longer, or as long and earlier in
\* a, or as long, at the same place in a and not later in b.
BlockBefore(x, y) ==
    \/ x.size > y.size
    \/ x.size = y.size /\ x.i < y.i
    \/ x.size = y.size /\ x.i = y.i /\ x.j <= y.j

\* SequenceMatcher.find_longest_match without junk: the longest matching
\* block of a[alo:ahi] and b[blo:bhi]; of those the one starting earliest in a,
\* and of those the one starting earliest in b.
find_longest_match(a, alo, ahi, b, blo, bhi) ==
    LET Best(blocks) ==
            IF blocks = {} THEN [ i |-> alo, j |-> blo, size |-> 0 ]
            ELSE CHOOSE x \in blocks : \A y \in blocks : BlockBefore(x, y)
    IN  Best({ [ i |-> ij[1], j |-> ij[2], size |-> RunLen(a, ij[1], ahi, b, ij[2], bhi) ] :
               ij \in { ij \in (alo..(ahi - 1)) \X (blo..(bhi - 1)) : a[ij[1]] = b[ij[2]] } })

\* The total size of get_matching_blocks: the longest block, then the blocks
\* to its left and to its right.
RECURSIVE MatchedChars(_, _, _, _, _, _)
MatchedChars(a, alo, ahi, b, blo, bhi) ==
    LET Around(x) ==
            IF x.size = 0 THEN 0
            ELSE x.size
                 + (IF alo < x.i /\ blo < x.j
                    THEN MatchedChars(a, alo, x.i, b, blo, x.j) ELSE 0)
                 + (IF x.i + x.size < ahi /\ x.j + x.size < bhi
                    THEN MatchedChars(a, x.i + x.size, ahi, b, x.j + x.size, bhi) ELSE 0)
    IN  Around(find_longest_match(a, alo, ahi, b, blo, bhi))

\* SequenceMatcher(None, a, b).ratio() as the fraction num / den
\* (2.0 * matches / length, 1.0 for two empty sequences).
Ratio(a, b) ==
    IF Len(a) + Len(b) = 0 THEN [ num |-> 1, den |-> 1 ]
    ELSE [ num |-> 2 * MatchedChars(a, 1, Len(a) + 1, b, 1, Len(b) + 1),
           den |-> Len(a) + Len(b) ]

\* round(num / den, 3) in thousandths. A tie is rounded to the even
\* thousandth, which is what round() does when the quotient is a binary
\* fraction, as every tie with den below 80 is.
Round3(num, den) ==
    LET Rounded(q, r) ==
            IF 2 * r > den THEN q + 1
            ELSE IF 2 * r < den THEN q
            ELSE IF q % 2 = 0 THEN q ELSE q + 1
    IN  Rounded((1000 * num) \div den, (1000 * num) % den)

\* The keys of a dict (a sequence of entries), in insertion order.
Keys(dict) == [ k \in 1..Len(dict) |-> dict[k].name ]

HasKey(dict, name) == \E k \in 1..Len(dict) : dict[k].name = name

Lookup(dict, name) == dict[CHOOSE k \in 1..Len(dict) : dict[k].name = name]

\* Lines 315-319: the signatures of the icons that have one. An empty tuple
\* is the only signature that "if paths" takes for none.
Fingerprints(catalog) ==
    SelectSeq([ k \in 1..Len(catalog) |->
                  [ name |-> catalog[k].name, paths |-> normalize_paths(catalog[k].svg) ] ],
              LAMBDA e : e.paths # << >>)

\* Line 337: fp_strs, the fingerprint of each icon that has a signature.
FpStrs(fingerprints) ==
    [ k \in 1..Len(fingerprints) |->
        [ name |-> fingerprints[k].name, fp |-> compute_fingerprint(fingerprints[k].paths) ] ]

\* The places in fp_strs where a fingerprint is seen for the first time.
FirstSeen(fp_strs) ==
    SelectSeq([ k \in 1..Len(fp_strs) |-> k ],
              LAMBDA k : \A h \in 1..(k - 1) : fp_strs[h].fp # fp_strs[k].fp)

\* Lines 322-327: the names of each fingerprint, fingerprints in the order
\* they are first seen and names in the order of the catalog.
FpToNames(fingerprints) ==
    LET Grouped(fp_strs, firsts) ==
            [ g \in 1..Len(firsts) |->
                [ fp    |-> fp_strs[firsts[g]].fp,
                  names |-> Keys(SelectSeq(fp_strs,
                                           LAMBDA e : e.fp = fp_strs[firsts[g]].fp)) ] ]
        Seen(fp_strs) == Grouped(fp_strs, FirstSeen(fp_strs))
    IN  Seen(FpStrs(fingerprints))

\* sorted(names) of each group
SortedNames(groups) == [ g \in 1..Len(groups) |-> SortedStr(groups[g].names) ]

\* Line 329 without the test for two or more names.
ExactGroupsOfAnySize(fingerprints) == SortedNames(FpToNames(fingerprints))

\* Line 329
ExactGroups(fingerprints) ==
    SortedNames(SelectSeq(FpToNames(fingerprints), LAMBDA g : Len(g.names) > 1))

InGroup(name, group) == \E k \in 1..Len(group) : group[k] = name

\* Lines 332-334
AlreadyExact(groups) ==
    UNION { { groups[g][k] : k \in 1..Len(groups[g]) } : g \in 1..Len(groups) }

\* Lines 349-357 without the search for a group with both names.
BothAlreadyExact(groups, name_a, name_b) ==
    name_a \in AlreadyExact(groups) /\ name_b \in AlreadyExact(groups)

\* Lines 349-357: both names are in one exact group.
SameGroup(groups, name_a, name_b) ==
    /\ name_a \in AlreadyExact(groups) /\ name_b \in AlreadyExact(groups)
    /\ \E g \in 1..Len(groups) : InGroup(name_a, groups[g]) /\ InGroup(name_b, groups[g])

\* Lines 363-368 with 0.9 for 0.4.
LengthCheckStrict(fp_a, fp_b) ==
    ~(Len(fp_a) > 0 /\ Len(fp_b) > 0
      /\ 10 * Min(Len(fp_a), Len(fp_b)) < 9 * Max(Len(fp_a), Len(fp_b)))

\* Lines 363-368: the quick length check lets the pair through.
LengthCheck(fp_a, fp_b) ==
    ~(Len(fp_a) > 0 /\ Len(fp_b) > 0
      /\ 10 * Min(Len(fp_a), Len(fp_b)) < LengthRatioMin * Max(Len(fp_a), Len(fp_b)))

\* Line 371 with > for >= .
MoreThanThreshold(ratio) == 100 * ratio.num > NEAR_DUPLICATE_THRESHOLD * ratio.den

\* Line 371: similarity >= NEAR_DUPLICATE_THRESHOLD
SimilarEnough(ratio) == 100 * ratio.num >= NEAR_DUPLICATE_THRESHOLD * ratio.den

\* Lines 370-372: the pair, if it is similar enough.
ScoredPair(name_a, name_b, ratio) ==
    IF SimilarEnough(ratio)
    THEN << << name_a, name_b, Round3(ratio.num, ratio.den) >> >>
    ELSE << >>

\* Lines 342-372: what comparing name_a with name_b appends to near_groups.
ComparePair(fingerprints, groups, name_a, name_b) ==
    LET Compared(fp_a, fp_b) ==
            IF fp_a = << >> THEN << >>
            ELSE IF SameGroup(groups, name_a, name_b) THEN << >>
            ELSE IF fp_b = << >> THEN << >>
            ELSE IF ~LengthCheck(fp_a, fp_b) THEN << >>
            ELSE ScoredPair(name_a, name_b, Ratio(fp_a, fp_b))
    IN  Compared(compute_fingerprint(Lookup(fingerprints, name_a).paths),
                 compute_fingerprint(Lookup(fingerprints, name_b).paths))

\* near_groups.sort(key=lambda x: x[2], reverse=True): a stable sort, so pairs
\* of one score keep their order.
RECURSIVE InsertByScore(_, _)
InsertByScore(x, sorted) ==
    IF sorted = << >> THEN << x >>
    ELSE IF x[3] > Head(sorted)[3] THEN << x >> \o sorted
    ELSE << Head(sorted) >> \o InsertByScore(x, Tail(sorted))

RECURSIVE SortByScore(_)
SortByScore(seq) ==
    IF seq = << >> THEN << >>
    ELSE InsertByScore(seq[Len(seq)], SortByScore(SubSeq(seq, 1, Len(seq) - 1)))

\* Lines 339-372: the pairs in the order the two loops find them.
NearPairs(fingerprints, groups) ==
    LET Pairs(names_list) ==
            Join([ i \in 1..Len(names_list) |->
                     Join([ j \in 1..(Len(names_list) - i) |->
                              ComparePair(fingerprints, groups,
                                          names_list[i], names_list[i + j]) ]) ])
    IN  Pairs(SortedStr(Keys(fingerprints)))

find_redundant_groups(catalog) ==
    LET Result(fingerprints, groups) ==
            [ exact_groups |-> groups,
              near_groups  |-> SortByScore(NearPairs(fingerprints, groups)) ]
        Grouped(fingerprints) == Result(fingerprints, ExactGroups(fingerprints))
    IN  Grouped(Fingerprints(catalog))

\* ------------------------------------------------------------------------
\* The redundancy detector on its own: catalogs drawn from a pool of markups
\* ------------------------------------------------------------------------

\* The greatest number of icons of a catalog.
MaxIcons == 4

\* The names given to the icons, in sorted order.
NamePool == << <<"A">>, <<"B">>, <<"C">>, <<"D">>, <<"E">> >>

\* Raw path data. The first two are the same after whitespace normalisation;
\* the third and the fourth are close to the first (similarity 0.875 and
\* exactly 0.8); the next is only whitespace; of the last three, one is too
\* short to be kept, one is kept and has the same normalised value, and one
\* has the shape of a clipPath id.
D_Plain   == <<"M","1"," ","1","L","2"," ","2">>
D_Spaced  == <<"M","1"," ","1","L","2"," ","2"," ">>
D_Near    == <<"M","1"," ","1","L","2"," ","3">>
D_Edge    == <<"M","1"," ","1","L","2","9">>
D_Blank   == <<" "," "," "," "," "," ">>
D_Short   == <<"M","0">>
D_Padded  == <<"M","0"," "," "," "," ">>
D_Clip    == <<"c","l","i","p","0","_","1","2","3">>

\* One value that is the first and the third joined by the separator of
\* compute_fingerprint.
D_Piped   == <<"M","1"," ","1","L","2"," ","2","|","M","1"," ","1","L","2"," ","3">>

\* A markup with the given path data, as extract_svg_from_tsx leaves it.
SvgOf(d_values) ==
    <<"<","s","v","g",">">>
        \o Join([ k \in 1..Len(d_values) |-> <<"<","p","a","t","h"," ","d","=","\"">> \o d_values[k] \o <<"\"","/",">">> ])
        \o <<"<","/","s","v","g",">">>

\* The path data of the markups of the pool.
PathPool ==
    << << D_Plain >>, << D_Spaced >>, << D_Edge >>, << D_Near >>,
       << D_Plain, D_Near >>, << D_Near, D_Spaced >>,
       << D_Blank >>, << D_Clip, D_Plain >>, << D_Short >>, << D_Padded >>,
       << D_Piped >> >>

SvgPool == [ k \in 1..Len(PathPool) |-> SvgOf(PathPool[k]) ]

\* The catalogs of n icons. The markups are taken from the pool in pool order
\* (any number of times each) and the icons are named by the first n names,
\* inserted in sorted order or in reverse order: the detector reads the names
\* only to order its output, so every other catalog over the pool is one of
\* these with its icons renamed.
CatalogsOf(n) ==
    { [ k \in 1..n |->
          [ name    |-> NamePool[IF rev THEN n + 1 - k ELSE k],
            svg     |-> SvgPool[pick[k]],
            source  |-> <<"a","n","a","t","o","m","y","-","u","i","-","c","o","r","e">>,
            used_by |-> << >> ] ] :
      pick \in { f \in [ 1..n -> 1..Len(SvgPool) ] :
                    \A k \in 1..(n - 1) : f[k] <= f[k + 1] },
      rev \in BOOLEAN }

Catalogs == UNION { CatalogsOf(n) : n \in 0..Min(MaxIcons, Len(NamePool)) }

\* main() stands before step 5 with one of these catalogs.
RedundancyInit ==
    /\ pc = "find_redundant"
    /\ pkg = << >> /\ custom = << >>
    /\ repo_i = 0 /\ entry_i = 0 /\ file_i = 0
    /\ icons \in Catalogs
    /\ custom_icons = << >>
    /\ exact_groups = << >> /\ near_groups = << >>
    /\ chunks = << >> /\ input_text = << >> /\ element_tags = << >> /\ svg_result = None
    /\ apps = << >> /\ app_i = 0 /\ primeicons_by_app = << >>
    /\ file_name = << >> /\ resolved = None

\* Step 5 of main(): exact_groups, near_groups = find_redundant_groups(icons)
FindRedundant ==
    /\ pc = "find_redundant"
    /\ LET result == find_redundant_groups(icons)
       IN  /\ exact_groups' = result.exact_groups
           /\ near_groups' = result.near_groups
    /\ pc' = "done"
    /\ UNCHANGED << pkg, custom, repo_i, entry_i, file_i, icons, custom_icons,
                    chunks, input_text, element_tags, svg_result,
                    apps, app_i, primeicons_by_app, file_name, resolved >>

RedundancyNext == FindRedundant

SpecRedundancy == RedundancyInit /\ [][RedundancyNext]_vars

\* ------------------------------------------------------------------------
\* The compiled extractor on its own: texts made of declarations
\* ------------------------------------------------------------------------

\* The greatest number of declarations of an input text.
MaxChunks == 3

\* The declarations an input text is made of, as the JSX compiler writes
\* them: what each declares (its kind, the start of the element it describes
\* and the fill it declares, None for what it does not declare) and its text.
\* The third declares an id and nothing to draw. The last two paths are
\* written with the fill directly after the path data.
ChunkPool ==
    << [ kind |-> "viewbox", tag |-> None, fill |-> None,
         text |-> <<"v","i","e","w","B","o","x",":"," ","\"","0"," ","0"," ","2","4"," ","2","4","\"",","," ">> ],
       [ kind |-> "size", tag |-> None, fill |-> None,
         text |-> <<"w","i","d","t","h",":"," ","\"","1","6","\"",","," ","h","e","i","g","h","t",":"," ","\"","1","8","\"",","," ">> ],
       [ kind |-> "other", tag |-> None, fill |-> None,
         text |-> <<"i","d",":"," ","\"","a","\"",","," ">> ],
       [ kind |-> "path", tag |-> <<"<","p","a","t","h"," ","d","=","\"","M","1"," ","1","L","2"," ","2","\""," ">>, fill |-> None,
         text |-> <<"j","s","x","(","\"","p","a","t","h","\"",","," ","{"," ","d",":"," ","\"","M","1"," ","1","L","2"," ","2","\""," ","}",")",","," ">> ],
       [ kind |-> "path", tag |-> <<"<","p","a","t","h"," ","d","=","\"","M","3"," ","3","L","4"," ","4","\""," ">>, fill |-> <<"#","F","F","0","0","0","0">>,
         text |-> <<"j","s","x","(","\"","p","a","t","h","\"",","," ","{"," ","d",":"," ","\"","M","3"," ","3","L","4"," ","4","\"",","," ","f","i","l","l",":"," ","\"","#","F","F","0","0","0","0","\""," ","}",")",","," ">> ],
       [ kind |-> "path", tag |-> <<"<","p","a","t","h"," ","d","=","\"","M","5"," ","5","L","6"," ","6","\""," ">>, fill |-> <<"v","a","r","(","-","-","c",")">>,
         text |-> <<"j","s","x","(","\"","p","a","t","h","\"",","," ","{"," ","f","i","l","l","R","u","l","e",":"," ","\"","e","v","e","n","o","d","d","\"",","," ","d",":"," ","\"","M","5"," ","5","L","6"," ","6","\"",","," ","f","i","l","l",":"," ","\"","v","a","r","(","-","-","c",")","\""," ","}",")",","," ">> ],
       [ kind |-> "circle", tag |-> <<"<","c","i","r","c","l","e"," ","c","x","=","\"","1","\""," ">>, fill |-> <<"v","a","r","(","-","-","c",")">>,
         text |-> <<"j","s","x","(","\"","c","i","r","c","l","e","\"",","," ","{"," ","c","x",":"," ","\"","1","\"",","," ","c","y",":"," ","\"","2","\"",","," ","r",":"," ","\"","3","\"",","," ","f","i","l","l",":"," ","\"","v","a","r","(","-","-","c",")","\""," ","}",")",","," ">> ],
       [ kind |-> "circle", tag |-> <<"<","c","i","r","c","l","e"," ","c","x","=","\"","4","\""," ">>, fill |-> <<"u","n","d","e","f","i","n","e","d">>,
         text |-> <<"j","s","x","(","\"","c","i","r","c","l","e","\"",","," ","{"," ","c","x",":"," ","\"","4","\"",","," ","c","y",":"," ","\"","5","\"",","," ","r",":"," ","\"","6","\"",","," ","f","i","l","l",":"," ","\"","u","n","d","e","f","i","n","e","d","\""," ","}",")",","," ">> ],
       [ kind |-> "path", tag |-> <<"<","p","a","t","h"," ","d","=","\"","M","7"," ","7","L","8"," ","8","\""," ">>, fill |-> <<"v","o","i","d"," ","0">>,
         text |-> <<"d",":"," ","\"","M","7"," ","7","L","8"," ","8","\"","f","i","l","l",":"," ","v","o","i","d"," ","0",","," ">> ],
       [ kind |-> "path", tag |-> <<"<","p","a","t","h"," ","d","=","\"","M","9"," ","9","L","0"," ","0","\""," ">>, fill |-> <<"v","a","r","(","-","-","c",")">>,
         text |-> <<"d",":"," ","\"","M","9"," ","9","L","0"," ","0","\"","f","i","l","l",":"," ","\"","v","a","r","(","-","-","c",")","\"",","," ">> ] >>

\* The sequences of at most n elements of 1..m.
RECURSIVE SeqsUpTo(_, _)
SeqsUpTo(n, m) ==
    IF n = 0 THEN { << >> }
    ELSE LET shorter == SeqsUpTo(n - 1, m)
         IN  shorter \cup { Append(s, k) : s \in shorter, k \in 1..m }

TextOf(chunk_ids) == Join([ k \in 1..Len(chunk_ids) |-> ChunkPool[chunk_ids[k]].text ])

ExtractInit ==
    /\ pc = "text"
    /\ chunks \in SeqsUpTo(MaxChunks, Len(ChunkPool))
    /\ input_text = TextOf(chunks)
    /\ element_tags = << >>
    /\ svg_result = None
    /\ pkg = << >> /\ custom = << >>
    /\ repo_i = 0 /\ entry_i = 0 /\ file_i = 0
    /\ icons = << >> /\ custom_icons = << >>
    /\ exact_groups = << >> /\ near_groups = << >>
    /\ apps = << >> /\ app_i = 0 /\ primeicons_by_app = << >>
    /\ file_name = << >> /\ resolved = None

\* svg = extract_svg_from_js(content)
ExtractJs ==
    /\ pc = "text"
    /\ element_tags' = Elements(input_text)
    /\ svg_result' = extract_svg_from_js(input_text)
    /\ pc' = "extracted"
    /\ UNCHANGED << pkg, custom, repo_i, entry_i, file_i, icons, custom_icons,
                    exact_groups, near_groups, chunks, input_text,
                    apps, app_i, primeicons_by_app, file_name, resolved >>

ExtractNext == ExtractJs

SpecExtract == ExtractInit /\ [][ExtractNext]_vars

\* ------------------------------------------------------------------------
\* Configuration and the file system main() reads
\* ------------------------------------------------------------------------

REPOS ==
    << <<"r","e","v","i","e","w","-","e","o","b","-","m","f">>, <<"e","m","p","i","r","e">>, <<"h","i","l","-","u","i">>, <<"d","o","c","u","m","e","n","t","-","c","e","n","t","e","r","-","m","f">>,
       <<"a","n","a","t","o","m","y","-","f","i","n","a","n","c","i","a","l","s","-","u","i">> >>

\* CUSTOM_SVG_DIRS has one application with one directory.
CustomApp == <<"a","n","a","t","o","m","y","-","f","i","n","a","n","c","i","a","l","s","-","u","i">>

PackageSource == <<"a","n","a","t","o","m","y","-","u","i","-","c","o","r","e">>
CustomSource  == <<"c","u","s","t","o","m"," ","(">> \o CustomApp \o <<")">>

\* Only the first MaxCopies repositories may hold a copy of the shared package.
MaxCopies == 2

\* Compiled components. A1 and A2 export A with different markup (two versions
\* of the package), A0 exports A and has no viewBox, N1 and N2 are A1 and A2
\* without the export statement.
JsA1 == <<"j","s","x","(","\"","s","v","g","\"",","," ","{"," ","v","i","e","w","B","o","x",":"," ","\"","0"," ","0"," ","2","4"," ","2","4","\"",","," ","c","h","i","l","d","r","e","n",":"," ","j","s","x","(","\"","p","a","t","h","\"",","," ","{"," ","d",":"," ","\"","M","1"," ","1","L","2"," ","2","\""," ","}",")"," ","}",")",";"," ","e","x","p","o","r","t"," ","{"," ","A"," ","}",";">>
JsA2 == <<"j","s","x","(","\"","s","v","g","\"",","," ","{"," ","w","i","d","t","h",":"," ","\"","1","6","\"",","," ","h","e","i","g","h","t",":"," ","\"","1","6","\"",","," ","v","i","e","w","B","o","x",":"," ","\"","0"," ","0"," ","1","6"," ","1","6","\"",","," ","c","h","i","l","d","r","e","n",":"," ","j","s","x","(","\"","p","a","t","h","\"",","," ","{"," ","d",":"," ","\"","M","1"," ","1","L","2"," ","3","\""," ","}",")"," ","}",")",";"," ","e","x","p","o","r","t"," ","{"," ","A"," ","}",";">>
JsA0 == <<"j","s","x","(","\"","s","v","g","\"",","," ","{"," ","c","h","i","l","d","r","e","n",":"," ","j","s","x","(","\"","p","a","t","h","\"",","," ","{"," ","d",":"," ","\"","M","1"," ","1","L","2"," ","2","\""," ","}",")"," ","}",")",";"," ","e","x","p","o","r","t"," ","{"," ","A"," ","}",";">>
JsN1 == <<"j","s","x","(","\"","s","v","g","\"",","," ","{"," ","v","i","e","w","B","o","x",":"," ","\"","0"," ","0"," ","2","4"," ","2","4","\"",","," ","c","h","i","l","d","r","e","n",":"," ","j","s","x","(","\"","p","a","t","h","\"",","," ","{"," ","d",":"," ","\"","M","1"," ","1","L","2"," ","2","\""," ","}",")"," ","}",")",";">>
JsN2 == <<"j","s","x","(","\"","s","v","g","\"",","," ","{"," ","w","i","d","t","h",":"," ","\"","1","6","\"",","," ","h","e","i","g","h","t",":"," ","\"","1","6","\"",","," ","v","i","e","w","B","o","x",":"," ","\"","0"," ","0"," ","1","6"," ","1","6","\"",","," ","c","h","i","l","d","r","e","n",":"," ","j","s","x","(","\"","p","a","t","h","\"",","," ","{"," ","d",":"," ","\"","M","1"," ","1","L","2"," ","3","\""," ","}",")"," ","}",")",";">>

\* A file: its name, its text, and whether it can be read. The text of a file
\* that is not valid UTF-8 is what decoding with errors="ignore" leaves of it.
File(name, content) == [ name |-> name, content |-> content, status |-> "ok" ]
Unreadable(name, content) == [ name |-> name, content |-> content, status |-> "unreadable" ]
Undecodable(name, content) == [ name |-> name, content |-> content, status |-> "undecodable" ]

\* Path.read_text raises: the file cannot be opened, or it is not valid UTF-8
\* and the call does not pass errors="ignore".
Raises(file, ignore_errors) ==
    \/ file.status = "unreadable"
    \/ file.status = "undecodable" /\ ~ignore_errors

Dir(name, files) == [ name |-> name, is_dir |-> TRUE, files |-> files ]
PlainFile(name) == [ name |-> name, is_dir |-> FALSE, files |-> << >> ]
IndexJs(content) == << File(<<"i","n","d","e","x",".","j","s">>, content) >>

\* What dist/icons of a repository may be: missing, or a directory with the
\* entries listed in the order iterdir() gives them, which is any order: the
\* entry with two .js files is there in both orders.
CopyPool ==
    << [ is_dir |-> FALSE, entries |-> << >> ],
       [ is_dir |-> TRUE,
         entries |-> << Dir(<<"B">>, << File(<<"i","n","d","e","x",".","d",".","t","s">>, << >>) >>), PlainFile(<<"A">>) >> ],
       [ is_dir |-> TRUE, entries |-> << Dir(<<"A">>, IndexJs(JsA1)) >> ],
       [ is_dir |-> TRUE,
         entries |-> << Dir(<<"A">>, << File(<<"i","n","d","e","x",".","j","s",".","m","a","p">>, <<"{","}">>),
                                     File(<<"i","n","d","e","x",".","j","s">>, JsA2) >>) >> ],
       [ is_dir |-> TRUE, entries |-> << Dir(<<"A">>, IndexJs(JsA0)) >> ],
       [ is_dir |-> TRUE,
         entries |-> << Dir(<<"A">>, << File(<<"c","h","u","n","k",".","j","s">>, JsA0), File(<<"i","n","d","e","x",".","j","s">>, JsA1) >>) >> ],
       [ is_dir |-> TRUE,
         entries |-> << Dir(<<"A">>, << File(<<"i","n","d","e","x",".","j","s">>, JsA1), File(<<"c","h","u","n","k",".","j","s">>, JsA0) >>) >> ],
       [ is_dir |-> TRUE,
         entries |-> << Dir(<<"B">>, IndexJs(JsA1)), Dir(<<"A">>, IndexJs(JsN2)) >> ],
       [ is_dir |-> TRUE, entries |-> << Dir(<<"B">>, IndexJs(JsN1)) >> ],
       [ is_dir |-> TRUE,
         entries |-> << Dir(<<"A">>, << Undecodable(<<"i","n","d","e","x",".","j","s">>, JsA1) >>),
                        Dir(<<"B">>, IndexJs(JsN1)) >> ] >>

\* Source components of the custom directory.
TsxA  == <<"e","x","p","o","r","t"," ","d","e","f","a","u","l","t"," ","f","u","n","c","t","i","o","n"," ","A","(","p","r","o","p","s",")"," ","{"," ","r","e","t","u","r","n"," ","<","s","v","g"," ","w","i","d","t","h","=","\"","2","4","\""," ","h","e","i","g","h","t","=","\"","2","4","\""," ","{",".",".",".","p","r","o","p","s","}",">","<","p","a","t","h"," ","d","=","\"","M","1"," ","1","L","2"," ","2","\""," ","f","i","l","l","=","\"","v","a","r","(","-","-","c",")","\"","/",">","<","/","s","v","g",">",";"," ","}">>
TsxA2 == <<"e","x","p","o","r","t"," ","f","u","n","c","t","i","o","n"," ","A","(",")"," ","{"," ","r","e","t","u","r","n"," ","<","s","v","g"," ","v","i","e","w","B","o","x","=","\"","0"," ","0"," ","8"," ","8","\"",">","<","p","a","t","h"," ","d","=","\"","M","1"," ","1","L","2"," ","3","\"","/",">","<","/","s","v","g",">",";"," ","}">>
TsxB  == <<"c","o","n","s","t"," ","B"," ","="," ","(",")"," ","=",">"," ","<","s","v","g"," ","c","l","a","s","s","N","a","m","e","=","\"","i","\"",">","<","p","a","t","h"," ","d","=","\"","M","1"," ","1","L","2"," ","2","\"","/",">","<","/","s","v","g",">",";">>
TsxC  == <<"e","x","p","o","r","t"," ","c","o","n","s","t"," ","C"," ","="," ","(",")"," ","=",">"," ","<","s","v","g"," ","v","i","e","w","B","o","x","=","\"","0"," ","0"," ","8"," ","8","\"",">","<","p","a","t","h"," ","d","=","\"","M","1"," ","1","L","2","9","\""," ","f","i","l","l","=","{","c","}","/",">","<","/","s","v","g",">",";">>
TsxD  == <<"e","x","p","o","r","t"," ","c","o","n","s","t"," ","D"," ","="," ","1",";">>

\* What the custom directory may be: missing, or its .tsx files in the order
\* rglob() gives them.
CustomPool ==
    << [ is_dir |-> FALSE, files |-> << >> ],
       [ is_dir |-> TRUE, files |-> << File(<<"A",".","t","s","x">>, TsxA) >> ],
       [ is_dir |-> TRUE, files |-> << File(<<"C",".","t","s","x">>, TsxC), File(<<"B",".","t","s","x">>, TsxB) >> ],
       [ is_dir |-> TRUE,
         files |-> << File(<<"Z",".","t","s","x">>, TsxA2), File(<<"D",".","t","s","x">>, TsxD), File(<<"A",".","t","s","x">>, TsxA) >> ],
       [ is_dir |-> TRUE,
         files |-> << Unreadable(<<"A",".","t","s","x">>, TsxA), Undecodable(<<"B",".","t","s","x">>, TsxB),
                      File(<<"C",".","t","s","x">>, TsxC) >> ] >>

\* sorted(listing): directory entries in the order of their names.
SortedByName(listing) ==
    LET Ordered(names) == [ k \in 1..Len(names) |-> Lookup(listing, names[k]) ]
    IN  Ordered(SortedStr(Keys(listing)))

\* Path.suffix
Suffix(name) ==
    LET From(last) ==
            IF last > 1 /\ last < Len(name) THEN SubSeq(name, last, Len(name)) ELSE << >>
    IN  From(MaxOr({ p \in 1..Len(name) : name[p] = "." }, 0))

\* ------------------------------------------------------------------------
\* Icon loading
\* ------------------------------------------------------------------------

\* dict[name] = value: a new key goes last, an old key keeps its place.
DictSet(dict, entry) ==
    IF HasKey(dict, entry.name)
    THEN [ k \in 1..Len(dict) |-> IF dict[k].name = entry.name THEN entry ELSE dict[k] ]
    ELSE Append(dict, entry)

IconEntry(name, svg, source) ==
    [ name |-> name, svg |-> svg, source |-> source, used_by |-> << >> ]

\* Line 185: the .js files of an entry that are not source maps.
JsFiles(entry) ==
    SelectSeq(entry.files,
              LAMBDA f : Suffix(f.name) = <<".","j","s">> /\ ~Contains(f.name, <<".","m","a","p">>))

\* Lines 191-196 without the test of line 191: a loaded name is overwritten.
PackageInsertOverwriting(catalog, name, content) ==
    LET Insert(svg) ==
            IF svg # None THEN DictSet(catalog, IconEntry(name, svg, PackageSource))
            ELSE catalog
    IN  Insert(extract_svg_from_js(content))

\* Lines 191-196: the catalog after a file of that name and content.
PackageInsert(catalog, name, content) ==
    LET Insert(svg) ==
            IF svg # None THEN DictSet(catalog, IconEntry(name, svg, PackageSource))
            ELSE catalog
    IN  IF HasKey(catalog, name) THEN catalog ELSE Insert(extract_svg_from_js(content))

\* Line 190: name = get_exported_name(content) or entry.name
PackageName(content, entry_name) ==
    LET Exporting(exported) == IF exported # None THEN exported ELSE entry_name
    IN  Exporting(get_exported_name(content))

\* Lines 189-196: the catalog after the first .js file of an entry, named by
\* its export or else by the entry.
LoadFile(catalog, entry_name, content) ==
    PackageInsert(catalog, PackageName(content, entry_name), content)

\* Lines 183-196: the catalog after one entry of a copy.
LoadedFromEntry(catalog, entry) ==
    LET First(js_files) ==
            IF js_files = << >> THEN catalog
            ELSE LoadFile(catalog, entry.name, js_files[1].content)
    IN  IF ~entry.is_dir THEN catalog ELSE First(JsFiles(entry))

\* Line 189: reading the first .js file of the entry raises. The call is in no
\* try block, in load_package_icons or in main().
EntryRaises(entry) ==
    LET First(js_files) == js_files # << >> /\ Raises(js_files[1], FALSE)
    IN  entry.is_dir /\ First(JsFiles(entry))

\* Lines 211-224: the custom dict after one .tsx file. A file that cannot be
\* read is passed over (lines 213-214).
CustomInsert(catalog, file) ==
    LET Insert(name, svg) ==
            IF svg # None THEN DictSet(catalog, IconEntry(name, svg, CustomSource))
            ELSE catalog
        Resolved(name) ==
            IF HasKey(catalog, name) THEN catalog
            ELSE Insert(name, extract_svg_from_tsx(file.content))
    IN  IF Raises(file, TRUE) THEN catalog
        ELSE Resolved(get_exported_name_tsx(file.content, file.name))

\* Lines 757-760 without the test of line 758: every custom icon is stored.
RECURSIVE MergeCustomIconsOverwriting(_, _)
MergeCustomIconsOverwriting(catalog, customs) ==
    IF customs = << >> THEN catalog
    ELSE MergeCustomIconsOverwriting(DictSet(catalog, Head(customs)), Tail(customs))

\* Lines 757-760: the custom icons whose names are new are added to the catalog.
RECURSIVE MergeCustomIcons(_, _)
MergeCustomIcons(catalog, customs) ==
    IF customs = << >> THEN catalog
    ELSE MergeCustomIcons(IF ~HasKey(catalog, Head(customs).name)
                          THEN DictSet(catalog, Head(customs))
                          ELSE catalog,
                          Tail(customs))

\* ------------------------------------------------------------------------
\* App usage scanning
\* ------------------------------------------------------------------------

\* s.endswith(lit)
EndsWith(s, lit) == Len(s) >= Len(lit) /\ IsAt(s, Len(s) - Len(lit) + 1, lit)

\* Line 239: the extensions of the files scanned for icon names.
SourceSuffixes == { <<".","t","s">>, <<".","t","s","x">>, <<".","j","s">>, <<".","j","s","x">> }

\* Line 261: the extensions of the files scanned for PrimeIcons classes.
StyleSuffixes == SourceSuffixes \cup { <<".","s","c","s","s">>, <<".","c","s","s">> }

\* Lines 237-245 and 259-267: the texts of the files of a tree (os.walk visits
\* every directory below src) that have one of the extensions and can be read
\* with errors="ignore".
ScannedTexts(src_dir, suffixes) ==
    { src_dir.files[k].content : k \in
        { j \in 1..Len(src_dir.files) :
            /\ \E suffix \in suffixes : EndsWith(src_dir.files[j].name, suffix)
            /\ ~Raises(src_dir.files[j], TRUE) } }

\* Lines 231-250 without the test of line 239: every file is scanned.
scan_app_for_icons_any_file(src_dir, known_icon_names) ==
    LET FoundIn(texts) ==
            { icon_name \in known_icon_names :
                \E content \in texts : Contains(content, icon_name) }
    IN  IF ~src_dir.is_dir THEN {}
        ELSE FoundIn({ src_dir.files[k].content : k \in
                         { j \in 1..Len(src_dir.files) : ~Raises(src_dir.files[j], TRUE) } })

\* Lines 231-250: the known names that occur in a scanned file.
scan_app_for_icons(src_dir, known_icon_names) ==
    LET FoundIn(texts) ==
            { icon_name \in known_icon_names :
                \E content \in texts : Contains(content, icon_name) }
    IN  IF ~src_dir.is_dir THEN {} ELSE FoundIn(ScannedTexts(src_dir, SourceSuffixes))

\* Lines 770-772: the application is appended to used_by of every name found
MarkUsed(catalog, used, app_name) ==
    [ k \in 1..Len(catalog) |->
        IF catalog[k].name \in used
        THEN [ catalog[k] EXCEPT !.used_by = Append(@, app_name) ]
        ELSE catalog[k] ]

\* Lines 769-772: the catalog after the scan of one application.
UsageScanned(catalog, src_dir, app_name) ==
    MarkUsed(catalog,
             scan_app_for_icons(src_dir, { catalog[k].name : k \in 1..Len(catalog) }),
             app_name)

\* The characters of a PrimeIcons class name: [a-z0-9-]
ClassChar == { c \in Char : c \in Digit \/ c = "-" \/ Ord[c] \in Ord["a"]..Ord["z"] }

\* PRIMEICON_PATTERN at position i: pi[- ]pi-([a-z0-9-]+) or else
\* iconClass\s*=\s*['"]pi-([a-z0-9-]+)['"] . The name is a greedy run that
\* needs no backtracking: in the first branch nothing follows it, in the
\* second only the character that stops the run can be the closing quote.
PrimeiconAt(s, i) ==
    LET Name(a, e, quoted) ==
            IF e = a \/ (quoted /\ ~(e <= Len(s) /\ s[e] \in Quote)) THEN NoMatch
            ELSE [ start |-> i, end |-> IF quoted THEN e + 1 ELSE e,
                   value |-> SubSeq(s, a, e - 1) ]
        Run(a, quoted) == Name(a, Span(s, a, ClassChar), quoted)
        Quoted(q) ==
            IF q <= Len(s) /\ s[q] \in Quote /\ IsAt(s, q + 1, <<"p","i","-">>)
            THEN Run(q + 4, TRUE) ELSE NoMatch
        Assigned(e) ==
            IF e <= Len(s) /\ s[e] = "=" THEN Quoted(Span(s, e + 1, Whitespace)) ELSE NoMatch
    IN  IF IsAt(s, i, <<"p","i">>) /\ i + 2 <= Len(s) /\ s[i + 2] \in { "-", " " }
           /\ IsAt(s, i + 3, <<"p","i","-">>) /\ Span(s, i + 6, ClassChar) > i + 6
        THEN Run(i + 6, FALSE)
        ELSE IF IsAt(s, i, <<"i","c","o","n","C","l","a","s","s">>) THEN Assigned(Span(s, i + 9, Whitespace))
        ELSE NoMatch

\* PRIMEICON_PATTERN.finditer(content): leftmost matches, none overlapping.
RECURSIVE PrimeiconFindIter(_, _)
PrimeiconFindIter(s, pos) ==
    LET From(m) == IF m = NoMatch THEN << >> ELSE << m >> \o PrimeiconFindIter(s, m.end)
    IN  From(Leftmost({ PrimeiconAt(s, p) : p \in pos..Len(s) } \ { NoMatch }))

\* Lines 268-271: the classes found in one text.
PrimeiconsIn(content) ==
    LET Found(matches) == { <<"p","i","-">> \o matches[k].value : k \in 1..Len(matches) }
    IN  Found(PrimeiconFindIter(content, 1))

\* Lines 253-273
scan_app_for_primeicons(src_dir) ==
    IF ~src_dir.is_dir THEN {}
    ELSE UNION { PrimeiconsIn(content) : content \in ScannedTexts(src_dir, StyleSuffixes) }

\* Lines 781-783: primeicons_by_app after the scan of one application.
PrimeiconsScanned(by_app, src_dir, app_name) ==
    LET Stored(pi) ==
            IF pi # {} THEN Append(by_app, [ name |-> app_name, classes |-> pi ]) ELSE by_app
    IN  Stored(scan_app_for_primeicons(src_dir))

\* Source files of the applications. Badge holds the name B inside a longer
\* identifier.
SrcA    == <<"i","m","p","o","r","t"," ","{"," ","A"," ","}"," ","f","r","o","m"," ","\"","u","i","\"",";"," ","c","o","n","s","t"," ","x"," ","="," ","<","i"," ","c","l","a","s","s","N","a","m","e","=","\"","p","i"," ","p","i","-","c","h","e","c","k","\""," ","/",">",";">>
SrcB    == <<"c","o","n","s","t"," ","y"," ","="," ","<","B","a","d","g","e"," ","i","c","o","n","C","l","a","s","s"," ","="," ","\"","p","i","-","u","s","e","r","-","1","\""," ","/",">",";">>
SrcC    == <<"e","x","p","o","r","t"," ","c","o","n","s","t"," ","z"," ","="," ","<","C"," ","/",">",";">>
CssPi   == <<".","p","i","-","p","i","-","h","o","m","e"," ","{"," ","c","o","l","o","r",":"," ","A",";"," ","}"," ","p","i",".","p","i","-","x"," ","i","c","o","n","C","l","a","s","s","=","\"","p","i","-","\""," ">>

\* What src of a repository may be: missing, or a directory with these files.
TreePool ==
    << [ is_dir |-> FALSE, files |-> << >> ],
       [ is_dir |-> TRUE,
         files |-> << File(<<"A","p","p",".","t","s","x">>, SrcA), File(<<"t","h","e","m","e",".","c","s","s">>, CssPi) >> ],
       [ is_dir |-> TRUE,
         files |-> << File(<<"u","t","i","l",".","t","s">>, SrcB), Unreadable(<<"l","o","c","k","e","d",".","t","s","x">>, SrcC),
                      File(<<"n","o","t","e","s",".","m","d">>, SrcA) >> ],
       [ is_dir |-> TRUE,
         files |-> << Undecodable(<<"o","l","d",".","j","s","x">>, SrcC), File(<<"A","p","p",".","j","s">>, SrcA) >> ] >>

\* The src directories of the repositories, in the order of REPOS.
AppsPool ==
    { << TreePool[2], TreePool[1], TreePool[3], TreePool[1], TreePool[4] >>,
      << TreePool[1], TreePool[3], TreePool[2], TreePool[2], TreePool[1] >>,
      << TreePool[4], TreePool[1], TreePool[1], TreePool[1], TreePool[1] >> }

\* ------------------------------------------------------------------------
\* main(): steps 1 to 5
\* ------------------------------------------------------------------------

Init ==
    /\ pc = "load_package"
    /\ pkg \in { [ r \in 1..Len(REPOS) |->
                      IF r <= MaxCopies THEN CopyPool[pick[r]] ELSE CopyPool[1] ] :
                  pick \in [ 1..Min(MaxCopies, Len(REPOS)) -> 1..Len(CopyPool) ] }
    /\ custom \in { CustomPool[k] : k \in 1..Len(CustomPool) }
    /\ repo_i = 1 /\ entry_i = 1 /\ file_i = 1
    /\ icons = << >> /\ custom_icons = << >>
    /\ exact_groups = << >> /\ near_groups = << >>
    /\ chunks = << >> /\ input_text = << >> /\ element_tags = << >> /\ svg_result = None
    /\ apps \in AppsPool
    /\ app_i = 1 /\ primeicons_by_app = << >>
    /\ file_name = << >> /\ resolved = None

\* Lines 179-180: a repository without dist/icons is passed over.
SkipRepo ==
    /\ pc = "load_package"
    /\ repo_i <= Len(REPOS)
    /\ ~pkg[repo_i].is_dir
    /\ repo_i' = repo_i + 1
    /\ entry_i' = 1
    /\ UNCHANGED << pc, pkg, custom, file_i, icons, custom_icons, exact_groups,
                    near_groups, chunks, input_text, element_tags, svg_result,
                    apps, app_i, primeicons_by_app, file_name, resolved >>

\* Lines 182-196: one turn of the loop over the sorted entries of a copy.
LoadEntry ==
    /\ pc = "load_package"
    /\ repo_i <= Len(REPOS)
    /\ pkg[repo_i].is_dir
    /\ entry_i <= Len(pkg[repo_i].entries)
    /\ ~EntryRaises(SortedByName(pkg[repo_i].entries)[entry_i])
    /\ icons' = LoadedFromEntry(icons, SortedByName(pkg[repo_i].entries)[entry_i])
    /\ entry_i' = entry_i + 1
    /\ UNCHANGED << pc, pkg, custom, repo_i, file_i, custom_icons, exact_groups,
                    near_groups, chunks, input_text, element_tags, svg_result,
                    apps, app_i, primeicons_by_app, file_name, resolved >>

\* Line 189: read_text raises and nothing catches it: the run ends with a
\* traceback.
LoadEntryRaises ==
    /\ pc = "load_package"
    /\ repo_i <= Len(REPOS)
    /\ pkg[repo_i].is_dir
    /\ entry_i <= Len(pkg[repo_i].entries)
    /\ EntryRaises(SortedByName(pkg[repo_i].entries)[entry_i])
    /\ pc' = "aborted"
    /\ UNCHANGED << pkg, custom, repo_i, entry_i, file_i, icons, custom_icons,
                    exact_groups, near_groups, chunks, input_text, element_tags,
                    svg_result, apps, app_i, primeicons_by_app, file_name, resolved >>

\* Line 182: the entries of a copy are exhausted.
NextRepo ==
    /\ pc = "load_package"
    /\ repo_i <= Len(REPOS)
    /\ pkg[repo_i].is_dir
    /\ entry_i > Len(pkg[repo_i].entries)
    /\ repo_i' = repo_i + 1
    /\ entry_i' = 1
    /\ UNCHANGED << pc, pkg, custom, file_i, icons, custom_icons, exact_groups,
                    near_groups, chunks, input_text, element_tags, svg_result,
                    apps, app_i, primeicons_by_app, file_name, resolved >>

\* Lines 198 and 749: load_package_icons returns the catalog.
ReturnPackageIcons ==
    /\ pc = "load_package"
    /\ repo_i > Len(REPOS)
    /\ pc' = "load_custom"
    /\ UNCHANGED << pkg, custom, repo_i, entry_i, file_i, icons, custom_icons,
                    exact_groups, near_groups, chunks, input_text, element_tags,
                    svg_result,
                    apps, app_i, primeicons_by_app, file_name, resolved >>

\* Lines 210-224: one turn of the loop over the sorted .tsx files.
LoadCustomFile ==
    /\ pc = "load_custom"
    /\ custom.is_dir
    /\ file_i <= Len(custom.files)
    /\ custom_icons' = CustomInsert(custom_icons, SortedByName(custom.files)[file_i])
    /\ file_i' = file_i + 1
    /\ UNCHANGED << pc, pkg, custom, repo_i, entry_i, icons, exact_groups,
                    near_groups, chunks, input_text, element_tags, svg_result,
                    apps, app_i, primeicons_by_app, file_name, resolved >>

\* Lines 207-208, 226 and 756: load_custom_svg_icons returns its dict.
ReturnCustomIcons ==
    /\ pc = "load_custom"
    /\ ~custom.is_dir \/ file_i > Len(custom.files)
    /\ pc' = "merge_custom"
    /\ UNCHANGED << pkg, custom, repo_i, entry_i, file_i, icons, custom_icons,
                    exact_groups, near_groups, chunks, input_text, element_tags,
                    svg_result,
                    apps, app_i, primeicons_by_app, file_name, resolved >>

\* Lines 757-760: the custom icons are merged into the catalog.
MergeCustom ==
    /\ pc = "merge_custom"
    /\ icons' = MergeCustomIcons(icons, custom_icons)
    /\ pc' = "scan_usage"
    /\ UNCHANGED << pkg, custom, repo_i, entry_i, file_i, custom_icons, exact_groups,
                    near_groups, chunks, input_text, element_tags, svg_result,
                    apps, app_i, primeicons_by_app, file_name, resolved >>

\* Lines 765-773: one turn of the loop of step 3. An application without src
\* is passed over (scan_app_for_icons is not called).
ScanAppUsage ==
    /\ pc = "scan_usage"
    /\ app_i <= Len(REPOS)
    /\ icons' = IF apps[app_i].is_dir
                THEN UsageScanned(icons, apps[app_i], REPOS[app_i])
                ELSE icons
    /\ app_i' = app_i + 1
    /\ UNCHANGED << pc, pkg, custom, repo_i, entry_i, file_i, custom_icons,
                    exact_groups, near_groups, chunks, input_text, element_tags,
                    svg_result, apps, primeicons_by_app, file_name, resolved >>

\* Lines 765 and 777: the loop of step 3 is over and step 4 begins.
UsageDone ==
    /\ pc = "scan_usage"
    /\ app_i > Len(REPOS)
    /\ pc' = "scan_primeicons"
    /\ app_i' = 1
    /\ UNCHANGED << pkg, custom, repo_i, entry_i, file_i, icons, custom_icons,
                    exact_groups, near_groups, chunks, input_text, element_tags,
                    svg_result, apps, primeicons_by_app, file_name, resolved >>

\* Lines 778-784: one turn of the loop of step 4.
ScanAppPrimeicons ==
    /\ pc = "scan_primeicons"
    /\ app_i <= Len(REPOS)
    /\ primeicons_by_app' = IF apps[app_i].is_dir
                            THEN PrimeiconsScanned(primeicons_by_app, apps[app_i], REPOS[app_i])
                            ELSE primeicons_by_app
    /\ app_i' = app_i + 1
    /\ UNCHANGED << pc, pkg, custom, repo_i, entry_i, file_i, icons, custom_icons,
                    exact_groups, near_groups, chunks, input_text, element_tags,
                    svg_result, apps, file_name, resolved >>

\* Lines 778 and 786: the loop of step 4 is over and step 5 begins.
PrimeiconsDone ==
    /\ pc = "scan_primeicons"
    /\ app_i > Len(REPOS)
    /\ pc' = "find_redundant"
    /\ UNCHANGED << pkg, custom, repo_i, entry_i, file_i, icons, custom_icons,
                    exact_groups, near_groups, chunks, input_text, element_tags,
                    svg_result, apps, app_i, primeicons_by_app, file_name, resolved >>

Next ==
    \/ SkipRepo
    \/ LoadEntry
    \/ LoadEntryRaises
    \/ NextRepo
    \/ ReturnPackageIcons
    \/ LoadCustomFile
    \/ ReturnCustomIcons
    \/ MergeCustom
    \/ ScanAppUsage
    \/ UsageDone
    \/ ScanAppPrimeicons
    \/ PrimeiconsDone
    \/ FindRedundant

Spec == Init /\ [][Next]_vars

\* ------------------------------------------------------------------------
\* The name resolvers on their own: texts made of statements
\* ------------------------------------------------------------------------

\* The greatest number of statements of a text.
MaxPieces == 3

\* The statements a component text is made of: what each one is (a function
\* export, a constant export, an export binding, or none of them), the name it
\* declares and its text.
PiecePool ==
    << [ kind |-> "function", name |-> <<"F","1">>, text |-> <<"e","x","p","o","r","t"," ","f","u","n","c","t","i","o","n"," ","F","1","(",")"," ","{","}"," ">> ],
       [ kind |-> "function", name |-> <<"F","2">>, text |-> <<"e","x","p","o","r","t"," ","d","e","f","a","u","l","t"," "," ","f","u","n","c","t","i","o","n"," ","F","2","(","p",")"," ","{","}"," ">> ],
       [ kind |-> "const",    name |-> <<"C","1">>, text |-> <<"e","x","p","o","r","t"," ","c","o","n","s","t"," ","C","1"," ","="," ","1",";"," ">> ],
       [ kind |-> "const",    name |-> <<"C","_","2">>, text |-> <<"e","x","p","o","r","t"," "," ","c","o","n","s","t"," ","C","_","2"," ","="," ","(",")"," ","=",">"," ","2",";"," ">> ],
       [ kind |-> "binding",  name |-> <<"J","1">>, text |-> <<"e","x","p","o","r","t"," ","{"," ","J","1"," ","}",";"," ">> ],
       [ kind |-> "binding",  name |-> <<"J","2">>, text |-> <<"e","x","p","o","r","t","{","J","2"," ","a","s"," ","d","e","f","a","u","l","t","}",";"," ">> ],
       [ kind |-> "none",     name |-> <<"N","1">>, text |-> <<"c","o","n","s","t"," ","N","1"," ","="," ","3",";"," ","f","u","n","c","t","i","o","n"," ","H","(",")"," ","{","}"," ">> ],
       [ kind |-> "none",     name |-> <<"K">>,  text |-> <<"e","x","p","o","r","t"," ","d","e","f","a","u","l","t"," ","c","l","a","s","s"," ","K"," ","{","}"," ">> ] >>

\* The names of the file (for a source component) or of the entry directory
\* (for a compiled one), each with its base name without extension.
FileNamePool ==
    { [ name |-> <<"I","c","o","n",".","t","s","x">>, base |-> <<"I","c","o","n">> ],
      [ name |-> <<"m","y",".","i","c","o","n",".","t","s","x">>, base |-> <<"m","y",".","i","c","o","n">> ],
      [ name |-> <<"E","n","t","r","y">>, base |-> <<"E","n","t","r","y">> ] }

PiecesText(piece_ids) == Join([ k \in 1..Len(piece_ids) |-> PiecePool[piece_ids[k]].text ])

NamesInit ==
    /\ pc = "resolve"
    /\ chunks \in SeqsUpTo(MaxPieces, Len(PiecePool))
    /\ input_text = PiecesText(chunks)
    /\ file_name \in { f.name : f \in FileNamePool }
    /\ resolved = None
    /\ element_tags = << >> /\ svg_result = None
    /\ pkg = << >> /\ custom = << >>
    /\ repo_i = 0 /\ entry_i = 0 /\ file_i = 0
    /\ icons = << >> /\ custom_icons = << >>
    /\ exact_groups = << >> /\ near_groups = << >>
    /\ apps = << >> /\ app_i = 0 /\ primeicons_by_app = << >>

\* Line 216: name = get_exported_name_tsx(content, fpath.name)
ResolveSource ==
    /\ pc = "resolve"
    /\ resolved' = get_exported_name_tsx(input_text, file_name)
    /\ pc' = "resolved_source"
    /\ UNCHANGED << pkg, custom, repo_i, entry_i, file_i, icons, custom_icons,
                    exact_groups, near_groups, chunks, input_text, element_tags,
                    svg_result, apps, app_i, primeicons_by_app, file_name >>

\* Line 190: name = get_exported_name(content) or entry.name
ResolveCompiled ==
    /\ pc = "resolve"
    /\ resolved' = PackageName(input_text, file_name)
    /\ pc' = "resolved_compiled"
    /\ UNCHANGED << pkg, custom, repo_i, entry_i, file_i, icons, custom_icons,
                    exact_groups, near_groups, chunks, input_text, element_tags,
                    svg_result, apps, app_i, primeicons_by_app, file_name >>

NamesNext == ResolveSource \/ ResolveCompiled

SpecNames == NamesInit /\ [][NamesNext]_vars

\* ------------------------------------------------------------------------
\* Properties of the compiled extractor (under SpecExtract)
\* ------------------------------------------------------------------------

Extracted == pc = "extracted"

\* The declarations of the input text.
Declared == { ChunkPool[chunks[k]] : k \in 1..Len(chunks) }
HasViewBox  == \E c \in Declared : c.kind = "viewbox"
HasDrawable == \E c \in Declared : c.kind \in { "path", "circle" }

\* The elements emitted for a declaration.
TagsOf(c) == { k \in 1..Len(element_tags) : IsAt(element_tags[k], 1, c.tag) }

\* The value of the fill attribute of an element.
TagFill(tag) ==
    LET From(p) == Slice(tag, p + 7, Find(tag, << "\"" >>, p + 7))
    IN  From(Find(tag, <<" ","f","i","l","l","=","\"">>, 1))

\* A declared fill that is a colour: no var() reference and no unset fill.
IsLiteralFill(fill) ==
    fill # None /\ ~Contains(fill, <<"v","a","r","(">>) /\ fill \notin UnsetFills

\* C3: extract_svg_from_js returns a fragment iff the text declares a viewBox
\* and at least one path or circle; without a viewBox, or with a viewBox and
\* nothing to draw, it returns nothing.
FragmentIffViewBoxAndDrawable ==
    Extracted => ((svg_result # None) <=> (HasViewBox /\ HasDrawable))

\* C4: the element emitted for a path declaration with a literal fill carries
\* that fill, and a path element has the default fill only when its
\* declaration has no fill or a fill that is normalised away.
PathKeepsLiteralFill ==
    Extracted =>
        \A c \in Declared :
            c.kind = "path" =>
                /\ TagsOf(c) # {}
                /\ \A k \in TagsOf(c) :
                      /\ IsLiteralFill(c.fill) => TagFill(element_tags[k]) = c.fill
                      /\ TagFill(element_tags[k]) = DefaultFill => ~IsLiteralFill(c.fill)

\* C5: in a returned fragment no path or circle element has a fill with a
\* var() reference or an unset fill (void 0, fill, undefined): the element of
\* a declaration with such a fill has the default fill #333.
NoVarOrUnsetFill ==
    Extracted /\ svg_result # None =>
        /\ \A k \in 1..Len(element_tags) :
              /\ ~Contains(TagFill(element_tags[k]), <<"v","a","r","(">>)
              /\ TagFill(element_tags[k]) \notin UnsetFills
        /\ \A c \in Declared :
              c.kind \in { "path", "circle" } /\ c.fill # None /\ ~IsLiteralFill(c.fill) =>
                  /\ TagsOf(c) # {}
                  /\ \A k \in TagsOf(c) : TagFill(element_tags[k]) = DefaultFill

\* A fragment was returned for a text with a path whose fill, written directly
\* after the path data, is unset and a circle whose fill is a var() reference.
NoVarOrUnsetFillWitness ==
    /\ Extracted /\ svg_result # None
    /\ \E c \in Declared : c.kind = "path" /\ c.fill \in UnsetFills
    /\ \E c \in Declared : c.kind = "circle" /\ c.fill # None /\ Contains(c.fill, <<"v","a","r","(">>)

\* C16: the elements of the fragment are one tag per declaration of a path or
\* a circle, in the order of the declarations in the text (texts with the id
\* declaration, which is taken for a path, are left aside).
TagsInDiscoveryOrder ==
    LET InOrder(drawable) ==
            /\ Len(element_tags) = Len(drawable)
            /\ \A k \in 1..Len(drawable) :
                  k <= Len(element_tags)
                      /\ IsAt(element_tags[k], 1, ChunkPool[drawable[k]].tag)
    IN  Extracted /\ (\A c \in Declared : c.kind # "other") =>
            InOrder(SelectSeq(chunks, LAMBDA id : ChunkPool[id].tag # None))

\* ------------------------------------------------------------------------
\* Properties of the redundancy detector (under SpecRedundancy)
\* ------------------------------------------------------------------------

Analysed == pc = "done"

IconIds == 1..Len(icons)

\* The path data of an icon as written in its markup, its signature and its
\* fingerprint.
AllPaths(k) == FindAllD(icons[k].svg, 1)
SignatureOf(k) == normalize_paths(icons[k].svg)
FingerprintOf(k) == compute_fingerprint(SignatureOf(k))

\* The path data that the two filters of normalize_paths keep.
Surviving(k) == SelectSeq(AllPaths(k), LAMBDA d : ~IsClipId(d) /\ Len(d) > MinPathLen)

\* Two lists hold the same values the same number of times.
SameBag(a, b) ==
    /\ Len(a) = Len(b)
    /\ \A i \in 1..Len(a) :
          Cardinality({ j \in 1..Len(a) : a[j] = a[i] })
              = Cardinality({ j \in 1..Len(b) : b[j] = a[i] })

\* Two icons are members of one exact group.
Together(i, j) ==
    \E g \in 1..Len(exact_groups) :
        InGroup(icons[i].name, exact_groups[g]) /\ InGroup(icons[j].name, exact_groups[g])

\* The exact groups an icon is a member of.
GroupsOf(i) == { g \in 1..Len(exact_groups) : InGroup(icons[i].name, exact_groups[g]) }

\* The icon of a name.
IdOf(name) == CHOOSE k \in IconIds : icons[k].name = name

\* The near-duplicate pairs of two icons, in either order.
PairsOf(i, j) ==
    { p \in 1..Len(near_groups) :
        { near_groups[p][1], near_groups[p][2] } = { icons[i].name, icons[j].name } }

\* min(len_a, len_b) / max(len_a, len_b) >= 0.4
LengthRatioAtLeastMin(fp_a, fp_b) ==
    10 * Min(Len(fp_a), Len(fp_b)) >= LengthRatioMin * Max(Len(fp_a), Len(fp_b))

\* C6 as stated: two icons whose path data are the same after whitespace
\* normalisation have the same signature and fingerprint and are in one exact
\* group.
SameNormalizedDataSameGroup ==
    Analysed =>
        \A i, j \in IconIds :
            i # j /\ SameBag(NormalizeAll(AllPaths(i)), NormalizeAll(AllPaths(j))) =>
                /\ SignatureOf(i) = SignatureOf(j)
                /\ FingerprintOf(i) = FingerprintOf(j)
                /\ Together(i, j)

\* C6 amended: two icons whose surviving path data (clipPath ids and values
\* of at most 5 characters as written are dropped first) are the same after
\* whitespace normalisation, in any order, have the same signature and
\* fingerprint, and are in one exact group when some value survives.
SameSurvivingDataSameGroup ==
    Analysed =>
        \A i, j \in IconIds :
            i # j /\ SameBag(NormalizeAll(Surviving(i)), NormalizeAll(Surviving(j))) =>
                /\ SignatureOf(i) = SignatureOf(j)
                /\ FingerprintOf(i) = FingerprintOf(j)
                /\ Surviving(i) # << >> => Together(i, j)

\* Two icons with two paths each, written in different orders and with
\* different whitespace, were analysed.
SameSurvivingDataWitness ==
    /\ Analysed
    /\ \E i, j \in IconIds :
          /\ i # j
          /\ Len(Surviving(i)) = 2
          /\ SameBag(NormalizeAll(Surviving(i)), NormalizeAll(Surviving(j)))
          /\ NormalizeAll(Surviving(i)) # NormalizeAll(Surviving(j))
          /\ Together(i, j)

\* C7: every exact group has at least two members, its members have the same
\* fingerprint and are listed in sorted order, no icon is in two groups, and
\* two icons with a signature and the same fingerprint are in one group.
ExactGroupsWellFormed ==
    Analysed =>
        /\ \A g \in 1..Len(exact_groups) :
              /\ Len(exact_groups[g]) >= 2
              /\ \A k \in 1..Len(exact_groups[g]) :
                    /\ HasKey(icons, exact_groups[g][k])
                    /\ FingerprintOf(IdOf(exact_groups[g][k]))
                          = FingerprintOf(IdOf(exact_groups[g][1]))
              /\ \A k \in 1..(Len(exact_groups[g]) - 1) :
                    StrLess(exact_groups[g][k], exact_groups[g][k + 1])
        /\ \A i \in IconIds : Cardinality(GroupsOf(i)) <= 1
        /\ \A i, j \in IconIds :
              /\ i # j
              /\ SignatureOf(i) # << >> /\ SignatureOf(j) # << >>
              /\ FingerprintOf(i) = FingerprintOf(j)
              => Together(i, j)

\* A catalog whose names were inserted in reverse order gave two exact groups.
ExactGroupsWitness ==
    /\ Analysed
    /\ Len(exact_groups) = 2
    /\ StrLess(icons[2].name, icons[1].name)

\* C8: every member of an exact group and both members of a near-duplicate
\* pair have a non-empty fingerprint; two icons whose only path data is
\* whitespace form no exact group.
NoEmptyFingerprintAnalysed ==
    Analysed =>
        /\ \A g \in 1..Len(exact_groups) : \A k \in 1..Len(exact_groups[g]) :
              FingerprintOf(IdOf(exact_groups[g][k])) # << >>
        /\ \A p \in 1..Len(near_groups) :
              /\ FingerprintOf(IdOf(near_groups[p][1])) # << >>
              /\ FingerprintOf(IdOf(near_groups[p][2])) # << >>

\* C9: a near-duplicate pair has two different names that are not in one
\* exact group, no two pairs have the same two names, and two icons in
\* different exact groups, or not both in a group, are compared: they are
\* paired when their fingerprints pass the length check and are similar enough.
NearPairsDistinctAndEligible ==
    Analysed =>
        /\ \A p \in 1..Len(near_groups) :
              /\ near_groups[p][1] # near_groups[p][2]
              /\ HasKey(icons, near_groups[p][1]) /\ HasKey(icons, near_groups[p][2])
              /\ ~Together(IdOf(near_groups[p][1]), IdOf(near_groups[p][2]))
        /\ \A i, j \in IconIds : Cardinality(PairsOf(i, j)) <= 1
        /\ \A i, j \in IconIds :
              /\ i # j
              /\ GroupsOf(i) # GroupsOf(j) \/ GroupsOf(i) = {}
              /\ FingerprintOf(i) # << >> /\ FingerprintOf(j) # << >>
              /\ LengthRatioAtLeastMin(FingerprintOf(i), FingerprintOf(j))
              /\ SimilarEnough(Ratio(FingerprintOf(i), FingerprintOf(j)))
              => PairsOf(i, j) # {}

\* Two icons of two different exact groups were paired.
NearPairsWitness ==
    /\ Analysed
    /\ \E i, j \in IconIds :
          GroupsOf(i) # {} /\ GroupsOf(j) # {} /\ GroupsOf(i) # GroupsOf(j)
              /\ PairsOf(i, j) # {}

\* C10: two different icons with signatures that are not in one exact group
\* are paired iff the shorter fingerprint is at least 0.4 of the longer and
\* their similarity is at least 0.80; a pair carries the similarity rounded to
\* 3 decimals (in thousandths here), and the pairs are in the order of
\* non-increasing score.
NearPairsIffSimilar ==
    Analysed =>
        /\ \A i, j \in IconIds :
              i # j /\ SignatureOf(i) # << >> /\ SignatureOf(j) # << >> /\ ~Together(i, j) =>
                  (PairsOf(i, j) # {}
                      <=> /\ LengthRatioAtLeastMin(FingerprintOf(i), FingerprintOf(j))
                          /\ 100 * Ratio(FingerprintOf(i), FingerprintOf(j)).num
                                >= 80 * Ratio(FingerprintOf(i), FingerprintOf(j)).den)
        /\ \A p \in 1..Len(near_groups) :
              near_groups[p][3]
                  = Round3(Ratio(FingerprintOf(IdOf(near_groups[p][1])),
                                 FingerprintOf(IdOf(near_groups[p][2]))).num,
                           Ratio(FingerprintOf(IdOf(near_groups[p][1])),
                                 FingerprintOf(IdOf(near_groups[p][2]))).den)
        /\ \A p \in 1..(Len(near_groups) - 1) : near_groups[p][3] >= near_groups[p + 1][3]

\* A pair with a similarity of exactly 0.8 was reported after a pair with a
\* higher score that the loops found later, and two icons with fingerprints
\* were left unpaired by the length check.
NearPairsIffSimilarWitness ==
    /\ Analysed
    /\ \E p, q \in 1..Len(near_groups) :
          /\ p < q
          /\ near_groups[q][3] = 800 /\ near_groups[p][3] > 800
          /\ near_groups[q][1] = near_groups[p][1]
          /\ StrLess(near_groups[q][2], near_groups[p][2])
    /\ \E i, j \in IconIds :
          /\ FingerprintOf(i) # << >> /\ FingerprintOf(j) # << >>
          /\ ~LengthRatioAtLeastMin(FingerprintOf(i), FingerprintOf(j))

\* C14: the separator of a fingerprint occurs in no value of a signature, so
\* two icons with different signatures have different fingerprints and are
\* not in one exact group.
FingerprintInjective ==
    Analysed =>
        /\ \A i \in IconIds : \A v \in 1..Len(SignatureOf(i)) :
              ~Contains(SignatureOf(i)[v], << "|" >>)
        /\ \A i, j \in IconIds :
              /\ SignatureOf(i) # << >> /\ SignatureOf(j) # << >>
              /\ SignatureOf(i) # SignatureOf(j)
              => /\ FingerprintOf(i) # FingerprintOf(j)
                 /\ ~Together(i, j)

\* The detector without the length check of lines 363-368: what comparing
\* two names appends, and the pairs in the order the loops find them.
ComparePairUnfiltered(fingerprints, groups, name_a, name_b) ==
    LET Compared(fp_a, fp_b) ==
            IF fp_a = << >> THEN << >>
            ELSE IF SameGroup(groups, name_a, name_b) THEN << >>
            ELSE IF fp_b = << >> THEN << >>
            ELSE ScoredPair(name_a, name_b, Ratio(fp_a, fp_b))
    IN  Compared(compute_fingerprint(Lookup(fingerprints, name_a).paths),
                 compute_fingerprint(Lookup(fingerprints, name_b).paths))

NearPairsUnfiltered(fingerprints, groups) ==
    LET Pairs(names_list) ==
            Join([ i \in 1..Len(names_list) |->
                     Join([ j \in 1..(Len(names_list) - i) |->
                              ComparePairUnfiltered(fingerprints, groups,
                                                    names_list[i], names_list[i + j]) ]) ])
    IN  Pairs(SortedStr(Keys(fingerprints)))

\* C18: two non-empty fingerprints the shorter of which is less than 0.4 of
\* the longer have at most the shorter length in matched characters and a
\* similarity below 0.80, and the near-duplicate list is the one the detector
\* returns without the length check.
PrefilterChangesNothing ==
    LET Dissimilar(ratio, shorter) ==
            /\ ratio.num <= 2 * shorter
            /\ 100 * ratio.num < 80 * ratio.den
    IN  Analysed =>
            /\ \A i, j \in IconIds :
                  /\ FingerprintOf(i) # << >> /\ FingerprintOf(j) # << >>
                  /\ ~LengthRatioAtLeastMin(FingerprintOf(i), FingerprintOf(j))
                  => Dissimilar(Ratio(FingerprintOf(i), FingerprintOf(j)),
                                Min(Len(FingerprintOf(i)), Len(FingerprintOf(j))))
            /\ near_groups
                  = SortByScore(NearPairsUnfiltered(Fingerprints(icons), exact_groups))

\* Two fingerprints with characters in common were kept apart by the length
\* check, in a catalog with a near-duplicate pair.
PrefilterChangesNothingWitness ==
    /\ Analysed
    /\ near_groups # << >>
    /\ \E i, j \in IconIds :
          /\ FingerprintOf(i) # << >> /\ FingerprintOf(j) # << >>
          /\ ~LengthRatioAtLeastMin(FingerprintOf(i), FingerprintOf(j))
          /\ Ratio(FingerprintOf(i), FingerprintOf(j)).num > 0

\* ------------------------------------------------------------------------
\* Properties of the catalog builder (under Spec)
\* ------------------------------------------------------------------------

\* What the shared-package pass reads of an entry: the name the entry's file
\* resolves to and the markup extracted from it (None if extraction fails).
Candidate(entry) ==
    [ name |-> IF get_exported_name(JsFiles(entry)[1].content) # None
               THEN get_exported_name(JsFiles(entry)[1].content)
               ELSE entry.name,
      svg  |-> extract_svg_from_js(JsFiles(entry)[1].content) ]

\* The candidates of one copy, in the sorted order of its entries.
CopyCandidates(copy) ==
    IF ~copy.is_dir THEN << >>
    ELSE LET readable == SelectSeq(SortedByName(copy.entries),
                                   LAMBDA e : e.is_dir /\ JsFiles(e) # << >>)
         IN  [ k \in 1..Len(readable) |-> Candidate(readable[k]) ]

\* The candidates of all copies in visiting order: applications in the order
\* of REPOS, entries of each copy in sorted order.
PackageCandidates == Join([ r \in 1..Len(REPOS) |-> CopyCandidates(pkg[r]) ])

\* Some candidate of the sequence yields an icon of that name.
YieldsIn(cands, name) ==
    \E k \in 1..Len(cands) : cands[k].name = name /\ cands[k].svg # None

\* The first candidate of the sequence that yields an icon of that name.
FirstYieldIn(cands, name) ==
    cands[MinOf({ k \in 1..Len(cands) : cands[k].name = name /\ cands[k].svg # None })]

\* The first candidate in visiting order that yields an icon of that name.
FirstYield(name) == FirstYieldIn(PackageCandidates, name)

PackageYields(name) == YieldsIn(PackageCandidates, name)

\* What the custom pass reads of each .tsx file that can be read.
CustomCandidates ==
    IF ~custom.is_dir THEN << >>
    ELSE LET readable == SelectSeq(custom.files, LAMBDA f : ~Raises(f, TRUE))
         IN  [ k \in 1..Len(readable) |->
                 [ name |-> get_exported_name_tsx(readable[k].content, readable[k].name),
                   svg  |-> extract_svg_from_tsx(readable[k].content) ] ]

\* load_package_icons has returned and main() has not yet merged the custom icons.
PackagePassDone == pc \in { "load_custom", "merge_custom" }

\* main() has merged the custom icons.
Merged == pc \in { "scan_usage", "scan_primeicons", "find_redundant", "done" }

\* C1: a name extracted from a copy of the shared package and from a custom
\* component has, in the final catalog, the markup and the provenance of the
\* shared package.
SharedPackageEntryKept ==
    Merged =>
        LET Kept(from_custom, from_package) ==
                \A k \in 1..Len(from_custom) :
                    from_custom[k].svg # None /\ YieldsIn(from_package, from_custom[k].name) =>
                        /\ HasKey(icons, from_custom[k].name)
                        /\ Lookup(icons, from_custom[k].name).svg
                              = FirstYieldIn(from_package, from_custom[k].name).svg
                        /\ Lookup(icons, from_custom[k].name).source = PackageSource
        IN  Kept(CustomCandidates, PackageCandidates)

\* The catalog was merged with a custom component of the name of a
\* shared-package icon and of another markup, and with one of a new name.
SharedPackageEntryKeptWitness ==
    /\ Merged
    /\ \E k \in 1..Len(custom_icons) :
          /\ PackageYields(custom_icons[k].name)
          /\ custom_icons[k].svg # FirstYield(custom_icons[k].name).svg
    /\ \E k \in 1..Len(icons) : icons[k].source = CustomSource

\* C2: after the shared-package pass a name is in the result iff some copy
\* yields an extractable icon of that name, and its markup is that of the
\* first such copy in visiting order.
FirstCopyWins ==
    PackagePassDone =>
        LET Wins(from_package) ==
                /\ \A k \in 1..Len(icons) :
                      /\ YieldsIn(from_package, icons[k].name)
                      /\ icons[k].svg = FirstYieldIn(from_package, icons[k].name).svg
                /\ \A k \in 1..Len(from_package) :
                      from_package[k].svg # None => HasKey(icons, from_package[k].name)
        IN  Wins(PackageCandidates)

\* The pass visited a copy whose extraction failed for a name and a later
\* copy that supplied it, or two copies with different markup for a name.
FirstCopyWinsWitness ==
    /\ PackagePassDone
    /\ \E j, k \in 1..Len(PackageCandidates) :
          /\ j < k
          /\ PackageCandidates[j].name = PackageCandidates[k].name
          /\ PackageCandidates[j].svg = None
          /\ PackageCandidates[k].svg # None
          /\ HasKey(icons, PackageCandidates[k].name)

\* ------------------------------------------------------------------------
\* Properties of the usage scan (under Spec)
\* ------------------------------------------------------------------------

\* Step 3 of main() is over.
UsagePhaseDone == pc \in { "scan_primeicons", "find_redundant", "done" }

\* The files of the src tree of an application that the scan reads: they have
\* one of the four extensions and opening them does not fail.
SourceFilesOf(r) ==
    { f \in { apps[r].files[j] : j \in 1..Len(apps[r].files) } :
        /\ \/ EndsWith(f.name, <<".","t","s">>) \/ EndsWith(f.name, <<".","t","s","x">>)
           \/ EndsWith(f.name, <<".","j","s">>) \/ EndsWith(f.name, <<".","j","s","x">>)
        /\ f.status # "unreadable" }

\* The name occurs as a substring of a source file of the application.
OccursIn(name, r) ==
    apps[r].is_dir /\ \E f \in SourceFilesOf(r) : Contains(f.content, name)

\* The places of an application in a used_by list.
PlacesOf(app_name, used_by) == { p \in 1..Len(used_by) : used_by[p] = app_name }

\* C11: after the usage phase an application is in the used_by of an icon
\* iff its source tree exists and the name of the icon is a substring of one
\* of its scanned source files; used_by lists no application twice and none
\* that is not in REPOS.
UsedByIffNameOccurs ==
    UsagePhaseDone =>
        \A k \in 1..Len(icons) :
            /\ \A r \in 1..Len(REPOS) :
                  /\ PlacesOf(REPOS[r], icons[k].used_by) # {} <=> OccursIn(icons[k].name, r)
                  /\ Cardinality(PlacesOf(REPOS[r], icons[k].used_by)) <= 1
            /\ \A p \in 1..Len(icons[k].used_by) :
                  \E r \in 1..Len(REPOS) : icons[k].used_by[p] = REPOS[r]

\* After the usage phase an icon is used by two applications, and an icon is
\* not used by an application one of whose files, not a scanned one, holds its
\* name.
UsedByIffNameOccursWitness ==
    /\ UsagePhaseDone
    /\ \E k \in 1..Len(icons) : Len(icons[k].used_by) >= 2
    /\ \E k \in 1..Len(icons), r \in 1..Len(REPOS) :
          /\ apps[r].is_dir
          /\ \E j \in 1..Len(apps[r].files) : Contains(apps[r].files[j].content, icons[k].name)
          /\ PlacesOf(REPOS[r], icons[k].used_by) = {}

\* ------------------------------------------------------------------------
\* Properties of the whole run (under Spec)
\* ------------------------------------------------------------------------

\* The result of load_package_icons on copies none of whose files raises:
\* the loop of lines 182-196 and the loop of lines 177-196.
RECURSIVE LoadedFromEntries(_, _)
LoadedFromEntries(catalog, entries) ==
    IF entries = << >> THEN catalog
    ELSE LoadedFromEntries(LoadedFromEntry(catalog, Head(entries)), Tail(entries))

RECURSIVE LoadedFromCopies(_, _)
LoadedFromCopies(catalog, copies) ==
    IF copies = << >> THEN catalog
    ELSE LoadedFromCopies(IF Head(copies).is_dir
                          THEN LoadedFromEntries(catalog, SortedByName(Head(copies).entries))
                          ELSE catalog,
                          Tail(copies))

\* The copies without the files that cannot be read as UTF-8.
WithoutBadFiles(copies) ==
    [ r \in 1..Len(copies) |->
        [ copies[r] EXCEPT !.entries =
            [ k \in 1..Len(@) |->
                [ @[k] EXCEPT !.files = SelectSeq(@, LAMBDA f : f.status = "ok") ] ] ] ]

\* C12: a file that cannot be read or decoded is passed over: the run does
\* not abort, and the shared-package pass returns what it returns without
\* the file.
BadFilesSkipped ==
    /\ pc # "aborted"
    /\ PackagePassDone => icons = LoadedFromCopies(<< >>, WithoutBadFiles(pkg))

\* The same file system with every directory enumerated in the opposite order.
Reversed(seq) == [ k \in 1..Len(seq) |-> seq[Len(seq) + 1 - k] ]

Relisted(copies) ==
    [ r \in 1..Len(copies) |->
        [ copies[r] EXCEPT !.entries =
            Reversed([ k \in 1..Len(@) |-> [ @[k] EXCEPT !.files = Reversed(@) ] ]) ] ]

\* C13: the run is deterministic whatever the order in which directories are
\* enumerated: the catalog of the shared-package pass (on which the final
\* catalog, used_by and the groups depend) is the one the pass returns when
\* every directory is enumerated in the opposite order.
EnumerationOrderIrrelevant ==
    PackagePassDone => icons = LoadedFromCopies(<< >>, Relisted(pkg))

\* C15: an entry of the catalog keeps its place, its markup and its
\* provenance in every step of the run, and no entry is removed: later
\* copies of the package, the merge of the custom icons, the two scans and the
\* redundancy detection change none of them.
EntriesNeverChange ==
    [][\A k \in 1..Len(icons) :
          /\ k <= Len(icons')
          /\ icons'[k].name = icons[k].name
          /\ icons'[k].svg = icons[k].svg
          /\ icons'[k].source = icons[k].source]_vars

\* The run is over: a later copy of the package had other markup for a name
\* of the catalog, a custom icon of a name of the catalog was dropped, and the
\* usage scan wrote to an entry.
EntriesNeverChangeWitness ==
    /\ pc = "done"
    /\ \E k \in 1..Len(PackageCandidates) :
          /\ PackageCandidates[k].svg # None
          /\ PackageCandidates[k].svg # FirstYield(PackageCandidates[k].name).svg
    /\ \E k \in 1..Len(custom_icons) :
          /\ HasKey(icons, custom_icons[k].name)
          /\ Lookup(icons, custom_icons[k].name).svg # custom_icons[k].svg
    /\ \E k \in 1..Len(icons) : icons[k].used_by # << >>

\* ------------------------------------------------------------------------
\* Properties of the name resolvers (under SpecNames)
\* ------------------------------------------------------------------------

\* The names the statements of a kind declare, in the order of the text.
DeclaredNames(kind) ==
    LET Of(ids) == [ k \in 1..Len(ids) |-> PiecePool[ids[k]].name ]
    IN  Of(SelectSeq(chunks, LAMBDA id : PiecePool[id].kind = kind))

\* The base name of the file without its extension.
BaseName == (CHOOSE f \in FileNamePool : f.name = file_name).base

\* C17: a source component is named by its first function export if it has
\* one, else by its first constant export, else by the base name of its file
\* (a function export wins over a constant export before it); a compiled
\* component is named by its first export binding, else by its entry.
NameByFirstPattern ==
    /\ pc = "resolved_source" =>
          resolved = IF DeclaredNames("function") # << >> THEN DeclaredNames("function")[1]
                     ELSE IF DeclaredNames("const") # << >> THEN DeclaredNames("const")[1]
                     ELSE BaseName
    /\ pc = "resolved_compiled" =>
          resolved = IF DeclaredNames("binding") # << >> THEN DeclaredNames("binding")[1]
                     ELSE file_name

\* A source component was named by a function export that stands after a
\* constant export.
NameByFirstPatternWitness ==
    /\ pc = "resolved_source"
    /\ \E i, j \in 1..Len(chunks) :
          /\ i < j
          /\ PiecePool[chunks[i]].kind = "const"
          /\ PiecePool[chunks[j]].kind = "function"
          /\ resolved = PiecePool[chunks[j]].name
============================================================================
